---- MODULE Spec2Model ----
(***************************************************************************)
(* Model of the DeepBug access-control code:                               *)
(*   src/src/firebase/security.ts  (login throttle, authentication,        *)
(*                                  ownership / admin checks)              *)
(*   src/unnamed/part_000          (firebase/database.ts: document CRUD)   *)
(*   src/unnamed/part_001          (components/auth.ts: AuthManager)       *)
(*   src/src/utils/router.ts, src/src/components/chat.ts                   *)
(*                                                                         *)
(* Strings are sequences of one-character strings, so that trimming,       *)
(* substring search, length limits and number formatting are computed.     *)
(* Date.now() is the variable now, in milliseconds; the environment moves  *)
(* it forward through a finite set of representative instants.             *)
(*                                                                         *)
(* The specifications share the variables:                                 *)
(*   SpecThrottle  isRateLimited / recordLoginAttempt called directly      *)
(*   SpecLogin, SpecAttempts, SpecRace                                     *)
(*                 authenticateUser / authenticateAdmin / registerUser,    *)
(*                 split at awaits                                         *)
(*   SpecLockout   the same with the throttle check called directly        *)
(*   SpecAuthz, SpecAuthzRace                                              *)
(*                 the document store and its guarded mutations            *)
(*   SpecAuthUI    AuthManager, the router and the admin panel             *)
(*   SpecChat      ChatManager, bans, the chat setting and the messages    *)
(***************************************************************************)
EXTENDS Integers, Naturals, Sequences, FiniteSets, TLC

VARIABLES
    now,            \* Date.now(), ms
    loginAttempts,  \* security.ts:8  Map identifier -> {count, lastAttempt}
    streak,         \* history: per identifier, failures recorded since the last success
    ev,             \* history: the last call observed (operation, arguments, result)
    calls,          \* in-flight authenticateUser / authenticateAdmin invocations
    recentFails,    \* history: logins failed in a row, and when the first of them failed
    db,             \* Firestore collections articles / projects / chat
    admins,         \* Firestore collection admins (document ids)
    ui,             \* AuthManager fields, the location and the admin panel's visibility
    chat            \* ChatManager fields, the settings/chat document and the ban flags

vars == <<now, loginAttempts, streak, ev, calls, recentFails, db, admins, ui, chat>>

\* part_001:10-11 (AuthManager fields at construction); the page at "/" with
\* the admin panel hidden
NoUI == [auth |-> "none", currentUser |-> "none", isUserAdmin |-> FALSE,
         path |-> "/", panel |-> FALSE]

\* chat.ts:17 (chatEnabled = true, no listener attached yet); settings/chat
\* says enabled, every user has a users document and none carries
\* isBannedFromChat
NoChat == [isEnabled |-> TRUE, profiles |-> {"u1", "u2"}, banned |-> {},
           chatEnabled |-> TRUE, ready |-> FALSE, listening |-> FALSE]

----------------------------------------------------------------------------
(* Bounds of the model *)

MaxWindows == 1     \* the clock covers lockout windows 0..MaxWindows
MaxCount == 6       \* direct recordLoginAttempt calls stop raising a count here

----------------------------------------------------------------------------
(* Program constants, security.ts:9-10 *)

MAX_LOGIN_ATTEMPTS == 5
LOCKOUT_DURATION == 15 * 60 * 1000

----------------------------------------------------------------------------
(* Strings *)

Digits36 == <<"0","1","2","3","4","5","6","7","8","9","a","b","c","d","e","f","g","h",
              "i","j","k","l","m","n","o","p","q","r","s","t","u","v","w","x","y","z">>

RECURSIVE toString36(_)
\* Number.prototype.toString(36) for a non-negative integer
toString36(n) ==
    IF n < 36 THEN <<Digits36[n + 1]>>
    ELSE toString36(n \div 36) \o <<Digits36[(n % 36) + 1]>>

\* security.ts:59-61  'client_' + Date.now().toString(36)
getClientIdentifier(t) == <<"c","l","i","e","n","t","_">> \o toString36(t)

----------------------------------------------------------------------------
(* The clock *)

OneMinute == 60 * 1000

\* Instants at which Date.now() is sampled: in each lockout window its first
\* millisecond, the next millisecond, and one minute in.
Instants == { k * LOCKOUT_DURATION + o : k \in 0..MaxWindows, o \in {0, 1, OneMinute} }

----------------------------------------------------------------------------
(* Map<string, V> as a function whose domain is the set of keys present *)

MapHas(m, k) == k \in DOMAIN m
MapDelete(m, k) == [x \in (DOMAIN m) \ {k} |-> m[x]]
MapSet(m, k, v) == [x \in (DOMAIN m) \cup {k} |-> IF x = k THEN v ELSE m[x]]
EmptyMap == [x \in {} |-> 0]

----------------------------------------------------------------------------
(* Attempt throttle, security.ts:31-56 *)

\* the same with the expiry branch removed
isRateLimited_noExpiry(table, identifier, t) ==
    IF ~MapHas(table, identifier) THEN [ret |-> FALSE, table |-> table]
    ELSE [ret |-> table[identifier].count >= MAX_LOGIN_ATTEMPTS, table |-> table]

\* the same with > in place of >=
isRateLimited_offByOne(table, identifier, t) ==
    IF ~MapHas(table, identifier) THEN [ret |-> FALSE, table |-> table]
    ELSE IF t - table[identifier].lastAttempt > LOCKOUT_DURATION
         THEN [ret |-> FALSE, table |-> MapDelete(table, identifier)]
         ELSE [ret |-> table[identifier].count > MAX_LOGIN_ATTEMPTS, table |-> table]

\* the same with the stale record kept
isRateLimited_noPurge(table, identifier, t) ==
    IF ~MapHas(table, identifier) THEN [ret |-> FALSE, table |-> table]
    ELSE IF t - table[identifier].lastAttempt > LOCKOUT_DURATION
         THEN [ret |-> FALSE, table |-> table]
         ELSE [ret |-> table[identifier].count >= MAX_LOGIN_ATTEMPTS, table |-> table]

\* security.ts:31-42; the result and the table after the call
isRateLimited(table, identifier, t) ==
    IF ~MapHas(table, identifier) THEN [ret |-> FALSE, table |-> table]
    ELSE IF t - table[identifier].lastAttempt > LOCKOUT_DURATION
         THEN [ret |-> FALSE, table |-> MapDelete(table, identifier)]
         ELSE [ret |-> table[identifier].count >= MAX_LOGIN_ATTEMPTS, table |-> table]

\* the same with the record reset to count 0 on success instead of deleted
recordLoginAttempt_zeroOnSuccess(table, identifier, success, t) ==
    LET attempt == IF MapHas(table, identifier) THEN table[identifier]
                   ELSE [count |-> 0, lastAttempt |-> t]
    IN  IF success THEN MapSet(table, identifier, [count |-> 0, lastAttempt |-> t])
        ELSE MapSet(table, identifier, [count |-> attempt.count + 1, lastAttempt |-> t])

\* the same with failures not stored
recordLoginAttempt_successOnly(table, identifier, success, t) ==
    IF success THEN MapDelete(table, identifier) ELSE table

\* the same with the record kept as it is on success
recordLoginAttempt_keepOnSuccess(table, identifier, success, t) ==
    LET attempt == IF MapHas(table, identifier) THEN table[identifier]
                   ELSE [count |-> 0, lastAttempt |-> t]
    IN  IF success THEN table
        ELSE MapSet(table, identifier, [count |-> attempt.count + 1, lastAttempt |-> t])

\* security.ts:45-56; the table after the call
recordLoginAttempt(table, identifier, success, t) ==
    LET attempt == IF MapHas(table, identifier) THEN table[identifier]
                   ELSE [count |-> 0, lastAttempt |-> t]
    IN  IF success THEN MapDelete(table, identifier)
        ELSE MapSet(table, identifier, [count |-> attempt.count + 1, lastAttempt |-> t])

----------------------------------------------------------------------------
(* SpecThrottle: the exported throttle functions called directly *)

\* identifiers passed by a direct caller
DirectIds == { <<"i","p","1">>, getClientIdentifier(0) }

NoEvent == [op |-> "none"]
NoStreak == [n |-> 0, first |-> 0]
NoFails == [n |-> 0, first |-> 0]
Absent == [count |-> 0, lastAttempt |-> 0]      \* what the history shows for "no record"

RecordOf(table, identifier) == IF MapHas(table, identifier) THEN table[identifier] ELSE Absent

Min(a, b) == IF a < b THEN a ELSE b

InitOther ==
    /\ calls = <<>>
    /\ recentFails = NoFails
    /\ db = EmptyMap
    /\ admins = {}
    /\ ui = NoUI
    /\ chat = NoChat

InitThrottle ==
    /\ now = 0
    /\ loginAttempts = EmptyMap
    /\ streak = [i \in DirectIds |-> NoStreak]
    /\ ev = NoEvent
    /\ InitOther

\* Date.now() moves forward
Tick ==
    /\ \E t \in Instants : t > now /\ now' = t
    /\ ev' = NoEvent
    /\ UNCHANGED <<loginAttempts, streak, calls, recentFails, db, admins, ui, chat>>

DoIsRateLimited(identifier) ==
    LET r == isRateLimited(loginAttempts, identifier, now)
    IN  /\ loginAttempts' = r.table
        /\ ev' = [op |-> "isRateLimited", id |-> identifier, ret |-> r.ret,
                  same |-> (r.table = loginAttempts),
                  had |-> MapHas(loginAttempts, identifier),
                  pre |-> RecordOf(loginAttempts, identifier),
                  streak |-> streak[identifier]]
        /\ UNCHANGED <<now, streak, calls, recentFails, db, admins, ui, chat>>

DoRecordLoginAttempt(identifier, success) ==
    /\ RecordOf(loginAttempts, identifier).count < MaxCount
    /\ loginAttempts' = recordLoginAttempt(loginAttempts, identifier, success, now)
    /\ streak' = [streak EXCEPT ![identifier] =
                    IF success THEN NoStreak
                    ELSE [n |-> Min(@.n + 1, MaxCount + 1),
                          first |-> IF @.n = 0 THEN now ELSE @.first]]
    /\ ev' = [op |-> "recordLoginAttempt", id |-> identifier, success |-> success,
              had |-> MapHas(loginAttempts, identifier),
              pre |-> RecordOf(loginAttempts, identifier),
              streak |-> streak[identifier]]
    /\ UNCHANGED <<now, calls, recentFails, db, admins, ui, chat>>

NextThrottle ==
    \/ Tick
    \/ \E i \in DirectIds : DoIsRateLimited(i)
    \/ \E i \in DirectIds : \E s \in BOOLEAN : DoRecordLoginAttempt(i, s)

SpecThrottle == InitThrottle /\ [][NextThrottle]_vars

----------------------------------------------------------------------------
(* Credential validators, security.ts:17-24, and the admin-route marker test *)

\* what \s of a regular expression and String.prototype.trim take for white
\* space: WhiteSpace and LineTerminator of ECMAScript.  A character outside
\* ASCII, and the vertical tab, is written as its code point.
Whitespace ==
    {" ", "\t", "\n", "\r", "\f", "U+000B", "U+00A0", "U+1680",
     "U+2000", "U+2001", "U+2002", "U+2003", "U+2004", "U+2005", "U+2006",
     "U+2007", "U+2008", "U+2009", "U+200A", "U+2028", "U+2029", "U+202F",
     "U+205F", "U+3000", "U+FEFF"}

\* /^[^\s@]+@[^\s@]+\.[^\s@]+$/ : a single '@', no white space, something before
\* the '@', and after it a '.' with something on both sides
MatchesEmailRegex(s) ==
    \E a \in 1..Len(s) : \E d \in 1..Len(s) :
        /\ s[a] = "@"
        /\ s[d] = "."
        /\ 1 < a
        /\ a + 1 < d
        /\ d < Len(s)
        /\ \A i \in 1..Len(s) : s[i] \notin Whitespace /\ (i # a => s[i] # "@")

\* security.ts:17-20
validateEmail(email) == MatchesEmailRegex(email) /\ Len(email) <= 100

\* security.ts:22-24
validatePassword(password) == Len(password) >= 6 /\ Len(password) <= 128

\* String.prototype.includes
Includes(s, sub) ==
    \E i \in 0..(Len(s) - Len(sub)) : \A j \in 1..Len(sub) : s[i + j] = sub[j]

\* security.ts:84  email.includes('admin') || email.includes('deepbug')
HasAdminMarker(email) ==
    \/ Includes(email, <<"a","d","m","i","n">>)
    \/ Includes(email, <<"d","e","e","p","b","u","g">>)

----------------------------------------------------------------------------
(* Admin lookup, security.ts:64-72.  A function result is [kind, val]:      *)
(* kind "return" with the value, or kind "throw" with the error.            *)

Return(v) == [kind |-> "return", val |-> v]
Throw(e) == [kind |-> "throw", val |-> e]

\* getDoc(doc(db, 'admins', uid)) followed by exists(); unreachable = the read rejects
GetAdminDoc(adminSet, uid, unreachable) ==
    IF unreachable THEN Throw("unavailable") ELSE Return(uid \in adminSet)

\* the same without the catch
isAdmin_noCatch(adminSet, uid, unreachable) ==
    GetAdminDoc(adminSet, uid, unreachable)

\* security.ts:64-72
isAdmin(adminSet, uid, unreachable) ==
    LET r == GetAdminDoc(adminSet, uid, unreachable)
    IN  IF r.kind = "throw" THEN Return(FALSE) ELSE r

----------------------------------------------------------------------------
(* SpecLogin and SpecAttempts: authenticateUser (security.ts:107-136),      *)
(* authenticateAdmin (75-104) and registerUser (139-181).  An               *)
(* invocation runs to its first await in one step and resumes when the      *)
(* awaited call settles; other invocations may start or resume in between.  *)

MaxInflight == 1    \* invocations awaiting an external call at the same time

Users == {"u1", "u2"}       \* uids known to the identity provider
NewUsers == {"u3"}          \* uids the identity provider gives to new accounts

Emails == { <<"u","@","x",".","i","o">>,
            <<"a","d","m","i","n","@","x",".","i","o">>,
            <<"d","e","e","p","b","u","g","@","x",".","i","o">>,
            <<"a","d","m","i","n">> }
Passwords == { <<"s","e","c","r","e","t">>, <<"1","2","3","4","5">> }

\* the classes a-z and A-Z of the regular expression of security.ts:27
LatinLetters ==
    {
     "a", "b", "c", "d", "e", "f", "g", "h", "i", "j", "k", "l", "m", "n",
     "o", "p", "q", "r", "s", "t", "u", "v", "w", "x", "y", "z", "A", "B",
     "C", "D", "E", "F", "G", "H", "I", "J", "K", "L", "M", "N", "O", "P",
     "Q", "R", "S", "T", "U", "V", "W", "X", "Y", "Z"}

\* its class U+0600-U+06FF; a character of the Arabic block is written by its
\* code point
ArabicLetters ==
    {
     "U+0600", "U+0601", "U+0602", "U+0603", "U+0604", "U+0605", "U+0606",
     "U+0607", "U+0608", "U+0609", "U+060A", "U+060B", "U+060C", "U+060D",
     "U+060E", "U+060F", "U+0610", "U+0611", "U+0612", "U+0613", "U+0614",
     "U+0615", "U+0616", "U+0617", "U+0618", "U+0619", "U+061A", "U+061B",
     "U+061C", "U+061D", "U+061E", "U+061F", "U+0620", "U+0621", "U+0622",
     "U+0623", "U+0624", "U+0625", "U+0626", "U+0627", "U+0628", "U+0629",
     "U+062A", "U+062B", "U+062C", "U+062D", "U+062E", "U+062F", "U+0630",
     "U+0631", "U+0632", "U+0633", "U+0634", "U+0635", "U+0636", "U+0637",
     "U+0638", "U+0639", "U+063A", "U+063B", "U+063C", "U+063D", "U+063E",
     "U+063F", "U+0640", "U+0641", "U+0642", "U+0643", "U+0644", "U+0645",
     "U+0646", "U+0647", "U+0648", "U+0649", "U+064A", "U+064B", "U+064C",
     "U+064D", "U+064E", "U+064F", "U+0650", "U+0651", "U+0652", "U+0653",
     "U+0654", "U+0655", "U+0656", "U+0657", "U+0658", "U+0659", "U+065A",
     "U+065B", "U+065C", "U+065D", "U+065E", "U+065F", "U+0660", "U+0661",
     "U+0662", "U+0663", "U+0664", "U+0665", "U+0666", "U+0667", "U+0668",
     "U+0669", "U+066A", "U+066B", "U+066C", "U+066D", "U+066E", "U+066F",
     "U+0670", "U+0671", "U+0672", "U+0673", "U+0674", "U+0675", "U+0676",
     "U+0677", "U+0678", "U+0679", "U+067A", "U+067B", "U+067C", "U+067D",
     "U+067E", "U+067F", "U+0680", "U+0681", "U+0682", "U+0683", "U+0684",
     "U+0685", "U+0686", "U+0687", "U+0688", "U+0689", "U+068A", "U+068B",
     "U+068C", "U+068D", "U+068E", "U+068F", "U+0690", "U+0691", "U+0692",
     "U+0693", "U+0694", "U+0695", "U+0696", "U+0697", "U+0698", "U+0699",
     "U+069A", "U+069B", "U+069C", "U+069D", "U+069E", "U+069F", "U+06A0",
     "U+06A1", "U+06A2", "U+06A3", "U+06A4", "U+06A5", "U+06A6", "U+06A7",
     "U+06A8", "U+06A9", "U+06AA", "U+06AB", "U+06AC", "U+06AD", "U+06AE",
     "U+06AF", "U+06B0", "U+06B1", "U+06B2", "U+06B3", "U+06B4", "U+06B5",
     "U+06B6", "U+06B7", "U+06B8", "U+06B9", "U+06BA", "U+06BB", "U+06BC",
     "U+06BD", "U+06BE", "U+06BF", "U+06C0", "U+06C1", "U+06C2", "U+06C3",
     "U+06C4", "U+06C5", "U+06C6", "U+06C7", "U+06C8", "U+06C9", "U+06CA",
     "U+06CB", "U+06CC", "U+06CD", "U+06CE", "U+06CF", "U+06D0", "U+06D1",
     "U+06D2", "U+06D3", "U+06D4", "U+06D5", "U+06D6", "U+06D7", "U+06D8",
     "U+06D9", "U+06DA", "U+06DB", "U+06DC", "U+06DD", "U+06DE", "U+06DF",
     "U+06E0", "U+06E1", "U+06E2", "U+06E3", "U+06E4", "U+06E5", "U+06E6",
     "U+06E7", "U+06E8", "U+06E9", "U+06EA", "U+06EB", "U+06EC", "U+06ED",
     "U+06EE", "U+06EF", "U+06F0", "U+06F1", "U+06F2", "U+06F3", "U+06F4",
     "U+06F5", "U+06F6", "U+06F7", "U+06F8", "U+06F9", "U+06FA", "U+06FB",
     "U+06FC", "U+06FD", "U+06FE", "U+06FF"}

\* security.ts:26-28  length 2..50 and /^[a-zA-Z؀-ۿ\s]+$/
validateName(name) ==
    /\ Len(name) >= 2
    /\ Len(name) <= 50
    /\ \A i \in 1..Len(name) : name[i] \in LatinLetters \cup ArabicLetters \cup Whitespace

Names == { <<"A","l","i">>, <<"U+0639","U+0644","U+064A">>, <<"A">>, <<"R","2">> }

\* error codes with which signInWithEmailAndPassword rejects
ProviderErrors == {"auth/user-not-found", "auth/wrong-password", "auth/network-request-failed"}

\* error codes with which createUserWithEmailAndPassword rejects
RegisterErrors == {"auth/email-already-in-use", "auth/network-request-failed"}

\* history: how many logins failed in a row since the last success (counted up
\* to 5) and when the first of them failed
\* Untracked: the history is not kept
Untracked == [n |-> 0 - 1, first |-> 0]

NoteFailure(fails, t) ==
    IF fails = Untracked THEN fails
    ELSE [n |-> Min(fails.n + 1, 5), first |-> IF fails.n = 0 THEN t ELSE fails.first]

NoteSuccess(fails) == IF fails = Untracked THEN fails ELSE NoFails

\* the clock of one browsing session: the instants of its first minute
SessionInstants == { t \in Instants : t < OneMinute }

TickSession ==
    /\ Tick
    /\ now' \in SessionInstants

\* calls[t] is the invocation holding slot t while it awaits, Idle when none does;
\* pending promises have no order among themselves
Tickets == 1..MaxInflight
Idle == [fn |-> "idle", id |-> <<>>, pc |-> "idle", uid |-> "none"]
InFlight(t) == calls[t] # Idle
FreeTicket == CHOOSE t \in DOMAIN calls : ~InFlight(t) /\ \A s \in 1..(t - 1) : InFlight(s)
HasFreeTicket == \E t \in DOMAIN calls : ~InFlight(t)

\* history, kept where streak has an entry for the identifier: the number of
\* credential checks that reached the provider since the last recorded success
NoteContact(s, identifier) ==
    IF MapHas(s, identifier)
    THEN [s EXCEPT ![identifier] = [n |-> @.n + 1, first |-> @.first]]
    ELSE s
NoteCleared(s, identifier) ==
    IF MapHas(s, identifier) THEN [s EXCEPT ![identifier] = NoStreak] ELSE s

NewCall(fn, identifier, pc) ==
    [fn |-> fn, id |-> identifier, pc |-> pc, uid |-> "none"]

InitLogin ==
    /\ now = 0
    /\ loginAttempts = EmptyMap
    /\ streak = EmptyMap
    /\ ev = NoEvent
    /\ calls = [t \in Tickets |-> Idle]
    /\ recentFails = NoFails
    /\ db = EmptyMap
    /\ admins = {"u1"}
    /\ ui = NoUI
    /\ chat = NoChat

\* history: by how much the identifier's count is higher in table after than
\* in the table now, 0 when after holds no record of it
Raised(identifier, after) ==
    IF MapHas(after, identifier)
    THEN after[identifier].count - RecordOf(loginAttempts, identifier).count
    ELSE 0

\* history: what the invocation did before its first await.
\* valid: the arguments pass validateEmail, validatePassword (and validateName);
\* wellFormed: the arguments pass the checks the function makes before the
\* provider is called; had: the identifier had a record when the call began;
\* raised: by how much the step raised the identifier's count;
\* same: the table is the same after the step as before it
StartEvent(fn, identifier, valid, wellFormed, outcome, contacted, after) ==
    [op |-> fn, phase |-> "start", id |-> identifier, valid |-> valid,
     wellFormed |-> wellFormed, outcome |-> outcome, contacted |-> contacted,
     had |-> MapHas(loginAttempts, identifier), raised |-> Raised(identifier, after),
     same |-> (after = loginAttempts)]

\* history: how the invocation c ended.  stage: the await it resumed from;
\* code: the error the awaited call rejected with, "none" if it resolved
DoneEvent(c, outcome, code, after) ==
    [op |-> c.fn, phase |-> "done", id |-> c.id, outcome |-> outcome,
     stage |-> c.pc, uid |-> c.uid, code |-> code,
     had |-> MapHas(loginAttempts, c.id), raised |-> Raised(c.id, after)]

\* security.ts:107-123, up to the await of signInWithEmailAndPassword
AuthenticateUserStart(email, password) ==
    LET identifier == getClientIdentifier(now)
        r == isRateLimited(loginAttempts, identifier, now)
        valid == validateEmail(email) /\ validatePassword(password)
    IN  /\ HasFreeTicket
        /\ loginAttempts' = r.table
        /\ IF r.ret
           THEN /\ ev' = StartEvent("authenticateUser", identifier, valid, valid,
                                    "RateLimited", FALSE, r.table)
                /\ calls' = calls
           ELSE IF ~validateEmail(email)
           THEN /\ ev' = StartEvent("authenticateUser", identifier, valid, valid,
                                    "InvalidEmail", FALSE, r.table)
                /\ calls' = calls
           ELSE IF ~validatePassword(password)
           THEN /\ ev' = StartEvent("authenticateUser", identifier, valid, valid,
                                    "InvalidPassword", FALSE, r.table)
                /\ calls' = calls
           ELSE /\ ev' = StartEvent("authenticateUser", identifier, valid, valid,
                                    "pending", TRUE, r.table)
                /\ calls' = [calls EXCEPT ![FreeTicket] = NewCall("authenticateUser", identifier, "signIn")]
        /\ streak' = IF ~r.ret /\ valid THEN NoteContact(streak, identifier) ELSE streak
        /\ UNCHANGED <<now, recentFails, db, admins, ui, chat>>

\* security.ts:123-125: the provider accepted the credentials
AuthenticateUserAccepted(i, uid) ==
    /\ calls[i].fn = "authenticateUser"
    /\ loginAttempts' = recordLoginAttempt(loginAttempts, calls[i].id, TRUE, now)
    /\ recentFails' = NoteSuccess(recentFails)
    /\ ev' = DoneEvent(calls[i], "ok", "none", loginAttempts')
    /\ calls' = [calls EXCEPT ![i] = Idle]
    /\ streak' = NoteCleared(streak, calls[i].id)
    /\ UNCHANGED <<now, db, admins, ui, chat>>

\* security.ts:126-135: the provider rejected with error code
AuthenticateUserRejected(i, code) ==
    /\ calls[i].fn = "authenticateUser"
    /\ loginAttempts' = recordLoginAttempt(loginAttempts, calls[i].id, FALSE, now)
    /\ recentFails' = NoteFailure(recentFails, now)
    /\ ev' = DoneEvent(calls[i],
                IF code = "auth/user-not-found" \/ code = "auth/wrong-password"
                THEN "BadCredentials" ELSE "LoginError",
                code, loginAttempts')
    /\ calls' = [calls EXCEPT ![i] = Idle]
    /\ UNCHANGED <<now, streak, db, admins, ui, chat>>

\* the same with the throttle consulted but not obeyed
AuthenticateAdminStart_ignoreThrottle(email, password) ==
    LET identifier == getClientIdentifier(now)
        r == isRateLimited(loginAttempts, identifier, now)
        valid == validateEmail(email) /\ validatePassword(password)
    IN  /\ HasFreeTicket
        /\ loginAttempts' = r.table
        /\ ev' = StartEvent("authenticateAdmin", identifier, valid, HasAdminMarker(email),
                            IF r.ret THEN "RateLimited" ELSE "pending", TRUE, r.table)
        /\ calls' = IF r.ret THEN calls
                    ELSE [calls EXCEPT ![FreeTicket] = NewCall("authenticateAdmin", identifier, "signIn")]
        /\ UNCHANGED <<now, streak, recentFails, db, admins, ui, chat>>

\* security.ts:75-89, up to the await of signInWithEmailAndPassword
AuthenticateAdminStart(email, password) ==
    LET identifier == getClientIdentifier(now)
        r == isRateLimited(loginAttempts, identifier, now)
        valid == validateEmail(email) /\ validatePassword(password)
        \* line 85 records the failure, line 86 throws into the catch of line 100,
        \* where line 101 records it again
        inTry == recordLoginAttempt(r.table, identifier, FALSE, now)
        inCatch == recordLoginAttempt(inTry, identifier, FALSE, now)
    IN  /\ HasFreeTicket
        /\ IF r.ret
           THEN /\ loginAttempts' = r.table
                /\ ev' = StartEvent("authenticateAdmin", identifier, valid,
                                    HasAdminMarker(email), "RateLimited", FALSE, r.table)
                /\ calls' = calls
           ELSE IF ~HasAdminMarker(email)
           THEN /\ loginAttempts' = inCatch
                /\ ev' = StartEvent("authenticateAdmin", identifier, valid,
                                    HasAdminMarker(email), "NotAuthorized", FALSE, inCatch)
                /\ calls' = calls
           ELSE /\ loginAttempts' = r.table
                /\ ev' = StartEvent("authenticateAdmin", identifier, valid,
                                    HasAdminMarker(email), "pending", TRUE, r.table)
                /\ calls' = [calls EXCEPT ![FreeTicket] = NewCall("authenticateAdmin", identifier, "signIn")]
        /\ UNCHANGED <<now, streak, recentFails, db, admins, ui, chat>>

\* security.ts:89 rejected: the catch (100-103) records the failure and rethrows
AuthenticateAdminRejected(i, code) ==
    /\ calls[i].fn = "authenticateAdmin"
    /\ calls[i].pc = "signIn"
    /\ loginAttempts' = recordLoginAttempt(loginAttempts, calls[i].id, FALSE, now)
    /\ recentFails' = NoteFailure(recentFails, now)
    /\ ev' = DoneEvent(calls[i], code, code, loginAttempts')
    /\ calls' = [calls EXCEPT ![i] = Idle]
    /\ UNCHANGED <<now, streak, db, admins, ui, chat>>

\* security.ts:89-90: credentials accepted, isAdmin(uid) awaited next
AuthenticateAdminAccepted(i, uid) ==
    /\ calls[i].fn = "authenticateAdmin"
    /\ calls[i].pc = "signIn"
    /\ calls' = [calls EXCEPT ![i].pc = "isAdmin", ![i].uid = uid]
    /\ ev' = [op |-> "authenticateAdmin", phase |-> "accepted", id |-> calls[i].id]
    /\ UNCHANGED <<now, loginAttempts, streak, recentFails, db, admins, ui, chat>>

\* security.ts:90-99: isAdmin settled
AuthenticateAdminRoleChecked(i, unreachable) ==
    LET c == calls[i]
        r == isAdmin(admins, c.uid, unreachable)
    IN  /\ c.fn = "authenticateAdmin"
        /\ c.pc = "isAdmin"
        /\ IF r.kind = "throw"
           THEN /\ loginAttempts' = recordLoginAttempt(loginAttempts, c.id, FALSE, now)
                /\ recentFails' = NoteFailure(recentFails, now)
                /\ ev' = DoneEvent(c, r.val, r.val, loginAttempts')
                /\ calls' = [calls EXCEPT ![i] = Idle]
           ELSE IF r.val
           THEN /\ loginAttempts' = recordLoginAttempt(loginAttempts, c.id, TRUE, now)
                /\ recentFails' = NoteSuccess(recentFails)
                /\ ev' = DoneEvent(c, "ok", "none", loginAttempts')
                /\ calls' = [calls EXCEPT ![i] = Idle]
           ELSE /\ calls' = [calls EXCEPT ![i].pc = "signOut"]
                /\ ev' = [op |-> "authenticateAdmin", phase |-> "signOut", id |-> c.id]
                /\ UNCHANGED <<loginAttempts, recentFails>>
        /\ streak' = IF r.kind = "return" /\ r.val THEN NoteCleared(streak, c.id) ELSE streak
        /\ UNCHANGED <<now, db, admins, ui, chat>>

\* security.ts:93-95 and 100-103: signOut settled for a principal that is not admin
AuthenticateAdminSignedOut(i, signOutOk) ==
    LET c == calls[i]
        inTry == recordLoginAttempt(loginAttempts, c.id, FALSE, now)
        inCatch == recordLoginAttempt(inTry, c.id, FALSE, now)
    IN  /\ c.fn = "authenticateAdmin"
        /\ c.pc = "signOut"
        /\ IF signOutOk
           THEN /\ loginAttempts' = inCatch
                /\ ev' = DoneEvent(c, "NotAuthorized", "none", loginAttempts')
           ELSE /\ loginAttempts' = recordLoginAttempt(loginAttempts, c.id, FALSE, now)
                /\ ev' = DoneEvent(c, "signOutError", "signOutError", loginAttempts')
        /\ recentFails' = NoteFailure(recentFails, now)
        /\ calls' = [calls EXCEPT ![i] = Idle]
        /\ UNCHANGED <<now, streak, db, admins, ui, chat>>

\* the same with the rate-limit error thrown inside the try, so that the catch
\* records the blocked attempt as a failure
RegisterUserStart_recordBlocked(name, email, password) ==
    LET identifier == getClientIdentifier(now)
        r == isRateLimited(loginAttempts, identifier, now)
        valid == validateName(name) /\ validateEmail(email) /\ validatePassword(password)
        outcome == IF r.ret THEN "RateLimited"
                   ELSE IF ~validateName(name) THEN "InvalidName"
                   ELSE IF ~validateEmail(email) THEN "InvalidEmail"
                   ELSE IF ~validatePassword(password) THEN "InvalidPassword"
                   ELSE "pending"
        after == IF r.ret THEN recordLoginAttempt(r.table, identifier, FALSE, now) ELSE r.table
    IN  /\ HasFreeTicket
        /\ loginAttempts' = after
        /\ ev' = StartEvent("registerUser", identifier, valid, valid, outcome,
                            outcome = "pending", after)
        /\ calls' = IF outcome = "pending"
                    THEN [calls EXCEPT ![FreeTicket] = NewCall("registerUser", identifier, "createUser")]
                    ELSE calls
        /\ UNCHANGED <<now, streak, recentFails, db, admins, ui, chat>>

\* security.ts:139-160, up to the await of createUserWithEmailAndPassword
RegisterUserStart(name, email, password) ==
    LET identifier == getClientIdentifier(now)
        r == isRateLimited(loginAttempts, identifier, now)
        valid == validateName(name) /\ validateEmail(email) /\ validatePassword(password)
        outcome == IF r.ret THEN "RateLimited"
                   ELSE IF ~validateName(name) THEN "InvalidName"
                   ELSE IF ~validateEmail(email) THEN "InvalidEmail"
                   ELSE IF ~validatePassword(password) THEN "InvalidPassword"
                   ELSE "pending"
    IN  /\ HasFreeTicket
        /\ loginAttempts' = r.table
        /\ ev' = StartEvent("registerUser", identifier, valid, valid, outcome,
                            outcome = "pending", r.table)
        /\ calls' = IF outcome = "pending"
                    THEN [calls EXCEPT ![FreeTicket] = NewCall("registerUser", identifier, "createUser")]
                    ELSE calls
        /\ UNCHANGED <<now, streak, recentFails, db, admins, ui, chat>>

\* security.ts:160 rejected: the catch (172-180) records the failure and throws
RegisterUserRejected(i, code) ==
    /\ calls[i].fn = "registerUser"
    /\ calls[i].pc = "createUser"
    /\ loginAttempts' = recordLoginAttempt(loginAttempts, calls[i].id, FALSE, now)
    /\ ev' = DoneEvent(calls[i],
                IF code = "auth/email-already-in-use" THEN "EmailInUse" ELSE "RegisterError",
                code, loginAttempts')
    /\ calls' = [calls EXCEPT ![i] = Idle]
    /\ UNCHANGED <<now, streak, recentFails, db, admins, ui, chat>>

\* security.ts:160-163: the account was created, setDoc of the profile awaited next
RegisterUserCreated(i, uid) ==
    /\ calls[i].fn = "registerUser"
    /\ calls[i].pc = "createUser"
    /\ calls' = [calls EXCEPT ![i].pc = "setDoc", ![i].uid = uid]
    /\ ev' = [op |-> "registerUser", phase |-> "created", id |-> calls[i].id]
    /\ UNCHANGED <<now, loginAttempts, streak, recentFails, db, admins, ui, chat>>

\* security.ts:163-180: setDoc of the profile settled
RegisterUserProfileSettled(i, written) ==
    LET c == calls[i]
    IN  /\ c.fn = "registerUser"
        /\ c.pc = "setDoc"
        /\ loginAttempts' = recordLoginAttempt(loginAttempts, c.id, written, now)
        /\ ev' = DoneEvent(c, IF written THEN "ok" ELSE "RegisterError",
                           IF written THEN "none" ELSE "unavailable", loginAttempts')
        /\ calls' = [calls EXCEPT ![i] = Idle]
        /\ streak' = IF written THEN NoteCleared(streak, c.id) ELSE streak
        /\ UNCHANGED <<now, recentFails, db, admins, ui, chat>>

\* the same with registerUser never resumed
SettleCall_loginsOnly(i) ==
    \/ \E u \in Users : AuthenticateUserAccepted(i, u)
    \/ \E code \in ProviderErrors : AuthenticateUserRejected(i, code)
    \/ \E code \in ProviderErrors : AuthenticateAdminRejected(i, code)
    \/ \E u \in Users : AuthenticateAdminAccepted(i, u)
    \/ \E f \in BOOLEAN : AuthenticateAdminRoleChecked(i, f)
    \/ \E ok \in BOOLEAN : AuthenticateAdminSignedOut(i, ok)

\* the awaited call of the invocation in slot i settles, resolved or rejected
SettleCall(i) ==
    \/ \E u \in Users : AuthenticateUserAccepted(i, u)
    \/ \E code \in ProviderErrors : AuthenticateUserRejected(i, code)
    \/ \E code \in ProviderErrors : AuthenticateAdminRejected(i, code)
    \/ \E u \in Users : AuthenticateAdminAccepted(i, u)
    \/ \E f \in BOOLEAN : AuthenticateAdminRoleChecked(i, f)
    \/ \E ok \in BOOLEAN : AuthenticateAdminSignedOut(i, ok)
    \/ \E code \in RegisterErrors : RegisterUserRejected(i, code)
    \/ \E u \in NewUsers : RegisterUserCreated(i, u)
    \/ \E w \in BOOLEAN : RegisterUserProfileSettled(i, w)

\* the awaited call of a login in slot i settles
SettleLogin(i) ==
    /\ calls[i].fn \in {"authenticateUser", "authenticateAdmin"}
    /\ SettleCall(i)

\* SpecLogin: the two login functions, with the history of failed logins
NextLogin ==
    \/ TickSession
    \/ \E e \in Emails : \E p \in Passwords : AuthenticateUserStart(e, p)
    \/ \E e \in Emails : \E p \in Passwords : AuthenticateAdminStart(e, p)
    \/ \E i \in DOMAIN calls : SettleLogin(i)

SpecLogin == InitLogin /\ [][NextLogin]_vars

\* SpecRace: authenticateUser invocations racing for the same identifier
MaxRacing == 2      \* authenticateUser invocations awaiting the provider at the same time

\* the awaited signInWithEmailAndPassword of the authenticateUser in slot i settles
SettleUser(i) ==
    \/ \E u \in Users : AuthenticateUserAccepted(i, u)
    \/ \E code \in ProviderErrors : AuthenticateUserRejected(i, code)

InitRace ==
    /\ now = 0
    /\ loginAttempts = EmptyMap
    /\ streak = [i \in { getClientIdentifier(t) : t \in SessionInstants } |-> NoStreak]
    /\ ev = NoEvent
    /\ calls = [t \in 1..MaxRacing |-> Idle]
    /\ recentFails = Untracked
    /\ db = EmptyMap
    /\ admins = {"u1"}
    /\ ui = NoUI
    /\ chat = NoChat

NextRace ==
    \/ TickSession
    \/ \E e \in Emails : \E p \in Passwords : AuthenticateUserStart(e, p)
    \/ \E i \in DOMAIN calls : SettleUser(i)

SpecRace == InitRace /\ [][NextRace]_vars

\* SpecAttempts: logins and registrations
InitAttempts ==
    /\ now = 0
    /\ loginAttempts = EmptyMap
    /\ streak = EmptyMap
    /\ ev = NoEvent
    /\ calls = [t \in Tickets |-> Idle]
    /\ recentFails = Untracked
    /\ db = EmptyMap
    /\ admins = {"u1"}
    /\ ui = NoUI
    /\ chat = NoChat

NextAttempts ==
    \/ TickSession
    \/ \E e \in Emails : \E p \in Passwords : AuthenticateUserStart(e, p)
    \/ \E e \in Emails : \E p \in Passwords : AuthenticateAdminStart(e, p)
    \/ \E n \in Names : \E e \in Emails : \E p \in Passwords : RegisterUserStart(n, e, p)
    \/ \E i \in DOMAIN calls : SettleCall(i)

SpecAttempts == InitAttempts /\ [][NextAttempts]_vars

\* SpecAttempts with every awaited external call eventually resolving or rejecting
SpecAttemptsLive ==
    SpecAttempts /\ \A t \in Tickets : WF_vars(SettleCall(t))

\* SpecLockout: logins and registrations, with the exported throttle check
\* called directly on the identifier of instant 0, then and 15 minutes and 1 ms later
LockoutInstants == { 0, LOCKOUT_DURATION + 1 }
LockoutIds == { getClientIdentifier(0) }

TickLockout ==
    /\ Tick
    /\ now' \in LockoutInstants

InitLockout ==
    /\ now = 0
    /\ loginAttempts = EmptyMap
    /\ streak = [i \in LockoutIds |-> NoStreak]
    /\ ev = NoEvent
    /\ calls = [t \in Tickets |-> Idle]
    /\ recentFails = Untracked
    /\ db = EmptyMap
    /\ admins = {"u1"}
    /\ ui = NoUI
    /\ chat = NoChat

NextLockout ==
    \/ TickLockout
    \/ \E e \in Emails : \E p \in Passwords : AuthenticateUserStart(e, p)
    \/ \E e \in Emails : \E p \in Passwords : AuthenticateAdminStart(e, p)
    \/ \E n \in Names : \E e \in Emails : \E p \in Passwords : RegisterUserStart(n, e, p)
    \/ \E i \in DOMAIN calls : SettleCall(i)
    \/ \E i \in LockoutIds : DoIsRateLimited(i)

SpecLockout == InitLockout /\ [][NextLockout]_vars

----------------------------------------------------------------------------
(* The document store (Firestore) as the code uses it.  db maps a          *)
(* collection name to a map from document id to document data.             *)

Collections == {"articles", "projects", "chat"}
DocIds == {"d1"}                \* ids addDoc can hand out

MaxDocs == 2        \* documents in the store at the same time
MaxRev == 1         \* updates applied to one document

\* outcome of getDoc(doc(db, coll, id)): rejects when the store is unreachable,
\* else a snapshot with exists() and data()
GetDoc(store, coll, id, unreachable) ==
    IF unreachable THEN Throw("unavailable")
    ELSE IF MapHas(store[coll], id)
         THEN Return([exists |-> TRUE, data |-> store[coll][id]])
         ELSE Return([exists |-> FALSE])

(* DOMPurify.sanitize as sanitizeInput calls it (security.ts:14): a string  *)
(* in, the default configuration, a string out.  The library is not part of *)
(* the repository; this is its behaviour on text, character references,     *)
(* comments and well-nested elements written without attributes.  A text    *)
(* without "<" is returned as it is.  Any other text is parsed as HTML and  *)
(* written out again: elements of the allow-list stay, script and style go  *)
(* with their content, other elements go and leave their content, comments  *)
(* go, and in the text "&", "<", ">" and U+00A0 are escaped.  Attributes    *)
(* are not carried over, and the parser's repairs of misnested markup are   *)
(* not followed.                                                            *)

UpperCase == <<"A","B","C","D","E","F","G","H","I","J","K","L","M",
               "N","O","P","Q","R","S","T","U","V","W","X","Y","Z">>
LowerCase == <<"a","b","c","d","e","f","g","h","i","j","k","l","m",
               "n","o","p","q","r","s","t","u","v","w","x","y","z">>

\* the lower-case form the parser gives a tag name
ToLower(w) ==
    [k \in 1..Len(w) |->
        IF \E n \in 1..26 : UpperCase[n] = w[k]
        THEN LowerCase[CHOOSE n \in 1..26 : UpperCase[n] = w[k]]
        ELSE w[k]]

\* elements DOMPurify keeps, of which the void ones have no end tag
KeptElements ==
    { <<"a">>, <<"b">>, <<"i">>, <<"u">>, <<"p">>, <<"e","m">>, <<"d","i","v">>,
      <<"s","p","a","n">>, <<"c","o","d","e">>, <<"m","a","r","k">>,
      <<"s","t","r","o","n","g">> }
VoidElements == { <<"b","r">>, <<"h","r">>, <<"i","m","g">> }

\* elements it removes together with what they contain
DroppedElements == { <<"s","c","r","i","p","t">>, <<"s","t","y","l","e">> }

\* s continues with t at position i
HasAt(s, i, t) == i + Len(t) - 1 <= Len(s) /\ SubSeq(s, i, i + Len(t) - 1) = t

\* the first position from i on where t begins, 0 when there is none
RECURSIVE Find(_, _, _)
Find(s, t, i) ==
    IF i + Len(t) - 1 > Len(s) THEN 0
    ELSE IF HasAt(s, i, t) THEN i
    ELSE Find(s, t, i + 1)

\* the position of the last character of the tag name that begins at i
RECURSIVE NameEnd(_, _)
NameEnd(s, i) ==
    IF i + 1 > Len(s) \/ s[i + 1] \in Whitespace \cup {"/", ">"} THEN i
    ELSE NameEnd(s, i + 1)

\* the named character references decoded here, and the text they stand for
CharRefs ==
    { [ref |-> <<"&","a","m","p",";">>, is |-> "&"],
      [ref |-> <<"&","l","t",";">>, is |-> "<"],
      [ref |-> <<"&","g","t",";">>, is |-> ">"],
      [ref |-> <<"&","q","u","o","t",";">>, is |-> "\""],
      [ref |-> <<"&","n","b","s","p",";">>, is |-> "U+00A0"] }

\* a character of a text node as innerHTML writes it
Escaped(c) ==
    IF c = "&" THEN <<"&","a","m","p",";">>
    ELSE IF c = "<" THEN <<"&","l","t",";">>
    ELSE IF c = ">" THEN <<"&","g","t",";">>
    ELSE IF c = "U+00A0" THEN <<"&","n","b","s","p",";">>
    ELSE <<c>>

StartTag(name) == <<"<">> \o name \o <<">">>
EndTag(name) == <<"<", "/">> \o name \o <<">">>

\* the end tags of the kept elements among open[from..Len(open)], innermost
\* first; open lists the open elements, the outermost first
RECURSIVE Closers(_, _)
Closers(open, from) ==
    IF from > Len(open) THEN <<>>
    ELSE Closers(open, from + 1)
            \o (IF open[from] \in KeptElements THEN EndTag(open[from]) ELSE <<>>)

\* the innermost open element called name, 0 when there is none
Innermost(open, name) ==
    IF \E k \in 1..Len(open) : open[k] = name
    THEN CHOOSE k \in 1..Len(open) :
            open[k] = name /\ \A j \in (k + 1)..Len(open) : open[j] # name
    ELSE 0

\* where a raw-text element opened before i ends: past the ">" of its end tag
RawTextEnd(s, i, name) ==
    LET low == ToLower(s)
        e == Find(low, <<"<", "/">> \o name, i)
        g == IF e = 0 THEN 0 ELSE Find(s, <<">">>, e)
    IN  IF g = 0 THEN Len(s) + 1 ELSE g + 1

\* the markup written for s from position i on, with the elements of open open
RECURSIVE Purify(_, _, _)
Purify(s, i, open) ==
    IF i > Len(s) THEN Closers(open, 1)
    ELSE IF s[i] = "&" /\ \E r \in CharRefs : HasAt(s, i, r.ref)
    THEN LET r == CHOOSE x \in CharRefs : HasAt(s, i, x.ref)
         IN  Escaped(r.is) \o Purify(s, i + Len(r.ref), open)
    ELSE IF s[i] # "<" THEN Escaped(s[i]) \o Purify(s, i + 1, open)
    ELSE IF HasAt(s, i, <<"<","!","-","-">>)
    THEN LET e == Find(s, <<"-","-",">">>, i + 4)
         IN  IF e = 0 THEN Closers(open, 1) ELSE Purify(s, e + 3, open)
    ELSE LET isEnd == HasAt(s, i + 1, <<"/">>)
             n == IF isEnd THEN i + 2 ELSE i + 1
             isTag == n <= Len(s) /\ s[n] \in LatinLetters
             g == Find(s, <<">">>, i + 1)
         IN  IF ~isTag /\ ~isEnd /\ ~HasAt(s, i + 1, <<"!">>) /\ ~HasAt(s, i + 1, <<"?">>)
             THEN Escaped("<") \o Purify(s, i + 1, open)
             ELSE IF g = 0 THEN Closers(open, 1)
             ELSE IF ~isTag THEN Purify(s, g + 1, open)
             ELSE LET name == ToLower(SubSeq(s, n, NameEnd(s, n)))
                      k == Innermost(open, name)
                  IN  IF isEnd
                      THEN IF k = 0 THEN Purify(s, g + 1, open)
                           ELSE Closers(open, k) \o Purify(s, g + 1, SubSeq(open, 1, k - 1))
                      ELSE IF name \in DroppedElements
                      THEN Purify(s, RawTextEnd(s, g + 1, name), open)
                      ELSE IF name \in VoidElements
                      THEN StartTag(name) \o Purify(s, g + 1, open)
                      ELSE (IF name \in KeptElements THEN StartTag(name) ELSE <<>>)
                                \o Purify(s, g + 1, Append(open, name))

\* DOMPurify.sanitize(dirty)
DOMPurifySanitize(dirty) ==
    IF \A i \in 1..Len(dirty) : dirty[i] # "<" THEN dirty ELSE Purify(dirty, 1, <<>>)

RECURSIVE TrimLeft(_)
TrimLeft(s) == IF s # <<>> /\ Head(s) \in Whitespace THEN TrimLeft(Tail(s)) ELSE s

RECURSIVE TrimRight(_)
TrimRight(s) ==
    IF s # <<>> /\ s[Len(s)] \in Whitespace THEN TrimRight(SubSeq(s, 1, Len(s) - 1)) ELSE s

\* String.prototype.trim
Trim(s) == TrimRight(TrimLeft(s))

\* security.ts:13-15
sanitizeInput(input) == DOMPurifySanitize(Trim(input))

----------------------------------------------------------------------------
(* Ownership check, security.ts:205-217 *)

\* the same without the admin alternative
verifyResourceOwnership_ownerOnly(store, adminSet, userId, resourceId, coll, resDown, admDown) ==
    LET r == GetDoc(store, coll, resourceId, resDown)
    IN  IF r.kind = "throw" THEN Return(FALSE)
        ELSE IF ~r.val.exists THEN Return(FALSE)
        ELSE Return(r.val.data.authorId = userId)

\* the same deciding on admin membership alone
verifyResourceOwnership_adminOnly(store, adminSet, userId, resourceId, coll, resDown, admDown) ==
    LET r == GetDoc(store, coll, resourceId, resDown)
    IN  IF r.kind = "throw" THEN Return(FALSE)
        ELSE IF ~r.val.exists THEN Return(FALSE)
        ELSE isAdmin(adminSet, userId, admDown)

\* the same without the comparison of authorId
verifyResourceOwnership_anyUser(store, adminSet, userId, resourceId, coll, resDown, admDown) ==
    LET r == GetDoc(store, coll, resourceId, resDown)
    IN  IF r.kind = "throw" THEN Return(FALSE)
        ELSE Return(r.val.exists)

\* security.ts:205-217.  resDown / admDown: the read of the resource / of the
\* admin document rejects.  isAdmin is awaited only when authorId differs.
verifyResourceOwnership(store, adminSet, userId, resourceId, coll, resDown, admDown) ==
    LET r == GetDoc(store, coll, resourceId, resDown)
        body == IF r.kind = "throw" THEN r
                ELSE IF ~r.val.exists THEN Return(FALSE)
                ELSE IF r.val.data.authorId = userId THEN Return(TRUE)
                ELSE isAdmin(adminSet, userId, admDown)
    IN  IF body.kind = "throw" THEN Return(FALSE) ELSE body

----------------------------------------------------------------------------
(* The document store of part_000 (firebase/database.ts): its writes and    *)
(* the documents the create functions build.  Each operator yields the      *)
(* settled result and the store afterwards.                                 *)

Outcome(r, store) == [ret |-> r, store |-> store]

\* updateDoc(doc(db, coll, id), data): rejects for a missing document
UpdateDoc(store, coll, id, data, writeDown) ==
    IF writeDown \/ ~MapHas(store[coll], id) THEN Outcome(Throw("unavailable"), store)
    ELSE Outcome(Return("void"),
                 [store EXCEPT ![coll] =
                     MapSet(@, id, [k \in DOMAIN @[id] |->
                                       IF k \in DOMAIN data THEN data[k] ELSE @[id][k]])])

\* deleteDoc(doc(db, coll, id)): resolves also when the document is missing
DeleteDoc(store, coll, id, writeDown) ==
    IF writeDown THEN Outcome(Throw("unavailable"), store)
    ELSE Outcome(Return("void"), [store EXCEPT ![coll] = MapDelete(@, id)])

\* serverTimestamp() for an update: later than the stamp the document carries
NextStamp(store, coll, id) ==
    IF MapHas(store[coll], id) THEN store[coll][id].updatedAt + 1 ELSE 0

NoOwner == "none"

\* part_000:105-111 and 200-207: the fields an update hands to updateDoc.  The
\* stamp always; the text (title or name) and imageUrl only when truthy, each
\* through sanitizeInput.  content, category, description and link
\* (part_000:110, 112, 205, 206) are fields the documents here do not carry.
UpdateFields(stamp, textKey, text, imageUrl) ==
    [k \in {"updatedAt"} \cup (IF text # <<>> THEN {textKey} ELSE {})
                         \cup (IF imageUrl # <<>> THEN {"imageUrl"} ELSE {}) |->
        IF k = "updatedAt" THEN stamp
        ELSE IF k = "imageUrl" THEN sanitizeInput(imageUrl)
        ELSE sanitizeInput(text)]

\* the same with the caller's authorId written when given
ArticleUpdateFields_spread(store, articleId, updateData) ==
    LET given == UpdateFields(NextStamp(store, "articles", articleId), "title",
                              updateData.title, updateData.imageUrl)
    IN  IF updateData.authorId # NoOwner
        THEN [k \in DOMAIN given \cup {"authorId"} |->
                IF k = "authorId" THEN updateData.authorId ELSE given[k]]
        ELSE given

\* part_000:105-112
ArticleUpdateFields(store, articleId, updateData) ==
    UpdateFields(NextStamp(store, "articles", articleId), "title",
                 updateData.title, updateData.imageUrl)

\* part_000:200-207
ProjectUpdateFields(store, projectId, updateData) ==
    UpdateFields(NextStamp(store, "projects", projectId), "name",
                 updateData.name, updateData.imageUrl)

\* the value undefined, and the image texts a caller passes: <<>> stands for
\* an absent or empty imageUrl, both falsy at part_000:84 and :181
Undefined == <<"undefined">>
Images == { <<"i">>, <<>> }

\* a field holding undefined, which addDoc refuses (config.ts:22: getFirestore
\* without ignoreUndefinedProperties)
HasUndefined(data) == "imageUrl" \in DOMAIN data /\ data.imageUrl = Undefined

\* addDoc(collection(db, coll), data) under a fresh id
AddDoc(store, coll, id, data, writeDown) ==
    IF writeDown \/ HasUndefined(data) THEN Outcome(Throw("unavailable"), store)
    ELSE Outcome(Return(id), [store EXCEPT ![coll] = MapSet(@, id, data)])

\* part_000:77-95; id is the id addDoc generates
createArticle(store, id, articleData, writeDown) ==
    LET w == AddDoc(store, "articles", id,
                    [authorId |-> articleData.authorId,
                     title |-> sanitizeInput(articleData.title),
                     imageUrl |-> IF articleData.imageUrl # <<>>
                                  THEN sanitizeInput(articleData.imageUrl)
                                  ELSE Undefined,
                     updatedAt |-> 0], writeDown)
    IN  IF w.ret.kind = "throw" THEN Outcome(Throw("createArticleFailed"), store) ELSE w

\* part_000:174-192
createProject(store, id, projectData, writeDown) ==
    LET w == AddDoc(store, "projects", id,
                    [authorId |-> projectData.authorId,
                     name |-> sanitizeInput(projectData.name),
                     imageUrl |-> IF projectData.imageUrl # <<>>
                                  THEN sanitizeInput(projectData.imageUrl)
                                  ELSE Undefined,
                     updatedAt |-> 0], writeDown)
    IN  IF w.ret.kind = "throw" THEN Outcome(Throw("createProjectFailed"), store) ELSE w

\* part_000:247-261
sendChatMessage(store, id, messageData, writeDown) ==
    LET w == AddDoc(store, "chat", id,
                    [authorId |-> messageData.authorId,
                     content |-> sanitizeInput(messageData.content)], writeDown)
    IN  IF w.ret.kind = "throw" THEN Outcome(Throw("sendChatMessageFailed"), store) ELSE w

----------------------------------------------------------------------------
(* SpecAuthz: the exported checks and mutations called on a store that      *)
(* starts empty.  A call is one step per await: its read of the resource,   *)
(* the isAdmin lookup when the caller is not the author, then its write;    *)
(* other calls, and the removal of an admin document, run in between.       *)

Titles == { <<"A">> }                       \* texts given at creation
NewTitles == { <<>>, <<" ","T">> }          \* texts given to an update; <<>> is falsy
NewImages == { <<>>, <<" ","j"," ">> }      \* imageUrl given to an update

DocCount(store) ==
    Cardinality(DOMAIN store["articles"]) + Cardinality(DOMAIN store["projects"])
        + Cardinality(DOMAIN store["chat"])

OwnerOf(store, coll, id) ==
    IF MapHas(store[coll], id) THEN store[coll][id].authorId ELSE NoOwner

\* the rejections a call met: of the read of the resource (res), of the read
\* of the admin document (adm), of the write (write)
NoFault == [res |-> FALSE, adm |-> FALSE, write |-> FALSE]

\* what the history keeps of a call: arguments, faults injected, settled result,
\* and the resource as it was in the store when the call was made
AuthzEvent(op, coll, id, user, f, ret, after) ==
    [op |-> op, coll |-> coll, id |-> id, user |-> user, f |-> f, ret |-> ret,
     existed |-> MapHas(db[coll], id), owner |-> OwnerOf(db, coll, id),
     changed |-> (after # db)]

GuardedWrites == {"updateArticle", "deleteArticle", "updateProject", "deleteProject"}

CollOf(op) == IF op \in {"updateArticle", "deleteArticle"} THEN "articles"
              ELSE IF op \in {"deleteChatMessage", "clearAllChatMessages"} THEN "chat"
              ELSE "projects"

\* the error a guarded operation throws from its catch block
Failed(op) ==
    IF op = "updateArticle" THEN "updateArticleFailed"
    ELSE IF op = "deleteArticle" THEN "deleteArticleFailed"
    ELSE IF op = "updateProject" THEN "updateProjectFailed"
    ELSE IF op = "deleteProject" THEN "deleteProjectFailed"
    ELSE IF op = "clearAllChatMessages" THEN "clearAllChatMessagesFailed"
    ELSE "deleteChatMessageFailed"

\* updateData as a caller may pass it: a text and an imageUrl, each given or
\* not, or a text together with another authorId
ArticleUpdates ==
    [title : NewTitles, imageUrl : NewImages, authorId : {NoOwner}]
        \cup [title : {<<" ","T">>}, imageUrl : {<<>>}, authorId : Users]
ProjectUpdates ==
    [name : NewTitles, imageUrl : NewImages, authorId : {NoOwner}]
        \cup [name : {<<" ","T">>}, imageUrl : {<<>>}, authorId : Users]
NoData == [authorId |-> NoOwner]
DataOf(op) == IF op = "updateArticle" THEN ArticleUpdates
              ELSE IF op = "updateProject" THEN ProjectUpdates ELSE {NoData}

\* A call of the store's API between two of its awaits.  pc "admin": isAdmin's
\* read of admins/uid is awaited; pc "write": the updateDoc or deleteDoc is
\* awaited.  owner is the authorId the call's read of the resource found
\* (NoOwner: no document), said what isAdmin answered to the call (FALSE when
\* it was not asked).  For clearAllChatMessages, pc "query": getDocs is
\* awaited; pc "deletes": Promise.all of the deleteDoc calls is awaited, left
\* are the documents whose deleteDoc has not settled; pc "rejected": the call
\* has thrown on a rejected deleteDoc and others have not settled yet.
\* flag is used by the calls of SpecChat.
NoCall == [op |-> "none", coll |-> "none", id |-> "none", user |-> "none",
           data |-> NoData, pc |-> "idle", owner |-> NoOwner, said |-> FALSE,
           left |-> {}, flag |-> FALSE]

\* the resource as the read of call c returned it
Seen(c) ==
    [k \in Collections |->
        IF k = c.coll /\ c.owner # NoOwner
        THEN MapSet(EmptyMap, c.id, [authorId |-> c.owner])
        ELSE EmptyMap]

HasFreeCall == \E t \in DOMAIN calls : calls[t] = NoCall
FreeCall == CHOOSE t \in DOMAIN calls : calls[t] = NoCall

\* the same letting every caller through
Refuses_never(verdict) == FALSE

\* part_000:100, 124, 196, 218, 279: if (!await ...) throw
Refuses(verdict) == ~verdict

\* part_000:104-114, 128, 200-209, 222, 283: the write of call c, applied to
\* store
WriteOf(c, store, writeDown) ==
    IF c.op = "updateArticle"
    THEN UpdateDoc(store, c.coll, c.id, ArticleUpdateFields(store, c.id, c.data), writeDown)
    ELSE IF c.op = "updateProject"
    THEN UpdateDoc(store, c.coll, c.id, ProjectUpdateFields(store, c.id, c.data), writeDown)
    ELSE DeleteDoc(store, c.coll, c.id, writeDown)

\* what the history keeps of a call that has ended: arguments, the rejection
\* it met, settled result, the resource as the call's read found it (existed,
\* owner), isAdmin's answer to it (said), the resource's owner in the store
\* just before the call's last step (ownerNow), and whether that step changed
\* the store
Ended(c, f, ret, after) ==
    [op |-> c.op, coll |-> c.coll, id |-> c.id, user |-> c.user, f |-> f, ret |-> ret,
     existed |-> (c.owner # NoOwner), owner |-> c.owner,
     said |-> c.said, ownerNow |-> OwnerOf(db, c.coll, c.id),
     changed |-> (after # db)]

\* what it keeps of a call that goes on to its next await
Awaits(c) == [op |-> "await", of |-> c.op, id |-> c.id, user |-> c.user, pc |-> c.pc]

AuthzFrame == UNCHANGED <<now, loginAttempts, streak, recentFails, admins, ui, chat>>

DoIsAdmin(uid, admDown) ==
    /\ ev' = [op |-> "isAdmin", coll |-> "admins", id |-> uid, user |-> uid,
              f |-> [res |-> FALSE, adm |-> admDown, write |-> FALSE],
              ret |-> isAdmin(admins, uid, admDown),
              existed |-> (uid \in admins), owner |-> NoOwner, changed |-> FALSE]
    /\ UNCHANGED <<db, calls>>
    /\ AuthzFrame

\* the revisions of a document are capped at MaxRev
MayRevise(op, id) ==
    (op \in {"updateArticle", "updateProject"} /\ MapHas(db[CollOf(op)], id))
        => db[CollOf(op)][id].updatedAt < MaxRev

\* verifyResourceOwnership, called by itself (op "verifyResourceOwnership") or
\* by updateArticle, deleteArticle, updateProject, deleteProject (part_000:100,
\* 124, 196, 218), up to the settling of its read of the resource
\* (security.ts:207-208).  Unless the resource is there with another authorId,
\* the verdict is out (209-211, 213-216); otherwise isAdmin is awaited (211).
BeginChecked(op, coll, id, user, data, resDown) ==
    LET r == GetDoc(db, coll, id, resDown)
        asks == r.kind = "return" /\ r.val.exists /\ r.val.data.authorId # user
        verdict == verifyResourceOwnership(db, admins, user, id, coll, resDown, FALSE)
        c == [op |-> op, coll |-> coll, id |-> id, user |-> user, data |-> data,
              pc |-> IF asks THEN "admin" ELSE "write", owner |-> OwnerOf(db, coll, id),
              said |-> FALSE, left |-> {}, flag |-> FALSE]
        f == [res |-> resDown, adm |-> FALSE, write |-> FALSE]
    IN  /\ op \in GuardedWrites => coll = CollOf(op)
        /\ MayRevise(op, id)
        /\ IF ~asks /\ op = "verifyResourceOwnership"
           THEN /\ ev' = Ended(c, f, verdict, db)
                /\ calls' = calls
           ELSE IF ~asks /\ Refuses(verdict.val)
           THEN /\ ev' = Ended(c, f, Throw(Failed(op)), db)
                /\ calls' = calls
           ELSE /\ HasFreeCall
                /\ calls' = [calls EXCEPT ![FreeCall] = c]
                /\ ev' = Awaits(c)
        /\ db' = db
        /\ AuthzFrame

\* security.ts:211: the awaited isAdmin(userId) of call i settles; the verdict
\* goes to the caller (212-216), which throws or goes on to its write
AdminAnswered(i, admDown) ==
    LET c == calls[i]
        verdict == verifyResourceOwnership(Seen(c), admins, c.user, c.id, c.coll,
                                           FALSE, admDown)
        d == [c EXCEPT !.pc = "write", !.said = verdict.val]
        f == [res |-> FALSE, adm |-> admDown, write |-> FALSE]
    IN  /\ c.pc = "admin"
        /\ IF c.op = "verifyResourceOwnership"
           THEN /\ ev' = Ended(d, f, verdict, db)
                /\ calls' = [calls EXCEPT ![i] = NoCall]
           ELSE IF Refuses(verdict.val)
           THEN /\ ev' = Ended(d, f, Throw(Failed(c.op)), db)
                /\ calls' = [calls EXCEPT ![i] = NoCall]
           ELSE /\ ev' = Awaits(d)
                /\ calls' = [calls EXCEPT ![i] = d]
        /\ db' = db
        /\ AuthzFrame

\* part_000:277-281: deleteChatMessage up to the settling of its isAdmin
BeginDeleteChatMessage(messageId, userId, admDown) ==
    LET verdict == isAdmin(admins, userId, admDown)
        c == [op |-> "deleteChatMessage", coll |-> "chat", id |-> messageId,
              user |-> userId, data |-> NoData, pc |-> "write",
              owner |-> OwnerOf(db, "chat", messageId), said |-> verdict.val,
              left |-> {}, flag |-> FALSE]
        f == [res |-> FALSE, adm |-> admDown, write |-> FALSE]
    IN  /\ IF Refuses(verdict.val)
           THEN /\ ev' = Ended(c, f, Throw(Failed(c.op)), db)
                /\ calls' = calls
           ELSE /\ HasFreeCall
                /\ calls' = [calls EXCEPT ![FreeCall] = c]
                /\ ev' = Awaits(c)
        /\ db' = db
        /\ AuthzFrame

\* part_000:290-294: clearAllChatMessages up to the settling of its isAdmin
BeginClearAllChatMessages(userId, admDown) ==
    LET verdict == isAdmin(admins, userId, admDown)
        c == [NoCall EXCEPT !.op = "clearAllChatMessages", !.coll = "chat",
                            !.user = userId, !.pc = "query", !.said = verdict.val]
        f == [res |-> FALSE, adm |-> admDown, write |-> FALSE]
    IN  /\ IF Refuses(verdict.val)
           THEN /\ ev' = Ended(c, f, Throw(Failed(c.op)), db)
                /\ calls' = calls
           ELSE /\ HasFreeCall
                /\ calls' = [calls EXCEPT ![FreeCall] = c]
                /\ ev' = Awaits(c)
        /\ db' = db
        /\ AuthzFrame

\* part_000:296-300: the awaited getDocs of the chat collection settles; a
\* deleteDoc is started for every document of the snapshot, and Promise.all
\* of none resolves
ChatQueried(i, resDown) ==
    LET c == calls[i]
        found == DOMAIN db["chat"]
        d == [c EXCEPT !.pc = "deletes", !.left = found]
        f == [res |-> resDown, adm |-> FALSE, write |-> FALSE]
    IN  /\ c.pc = "query"
        /\ IF resDown
           THEN /\ ev' = Ended(c, f, Throw(Failed(c.op)), db)
                /\ calls' = [calls EXCEPT ![i] = NoCall]
           ELSE IF found = {}
           THEN /\ ev' = Ended(c, f, Return("void"), db)
                /\ calls' = [calls EXCEPT ![i] = NoCall]
           ELSE /\ ev' = Awaits(d)
                /\ calls' = [calls EXCEPT ![i] = d]
        /\ db' = db
        /\ AuthzFrame

\* part_000:299-304: one of the deleteDoc calls settles.  Promise.all rejects
\* with the first deleteDoc that rejects, and the call throws while the
\* others go on; it resolves when the last of them has resolved.
ChatDocDeleted(i, id, writeDown) ==
    LET c == calls[i]
        w == DeleteDoc(db, "chat", id, writeDown)
        rest == c.left \ {id}
        one == [c EXCEPT !.id = id, !.owner = OwnerOf(db, "chat", id)]
        f == [res |-> FALSE, adm |-> FALSE, write |-> writeDown]
    IN  /\ c.pc \in {"deletes", "rejected"}
        /\ id \in c.left
        /\ db' = w.store
        /\ calls' = [calls EXCEPT ![i] =
                        IF rest = {} THEN NoCall
                        ELSE [c EXCEPT !.left = rest,
                                       !.pc = IF writeDown THEN "rejected" ELSE c.pc]]
        /\ ev' = IF c.pc = "deletes" /\ writeDown
                 THEN Ended(one, f, Throw(Failed(c.op)), w.store)
                 ELSE IF c.pc = "deletes" /\ rest = {}
                 THEN Ended(one, f, Return("void"), w.store)
                 ELSE [op |-> "deleteDoc", of |-> c.op, id |-> id, user |-> c.user,
                       pc |-> c.pc]
        /\ AuthzFrame

\* part_000:104-118, 128-132, 200-213, 222-226, 283-287: the awaited
\* updateDoc or deleteDoc of call i is applied to the store as it is now
WriteSettled(i, writeDown) ==
    LET c == calls[i]
        w == WriteOf(c, db, writeDown)
        out == IF w.ret.kind = "throw" THEN Outcome(Throw(Failed(c.op)), db) ELSE w
    IN  /\ c.pc = "write"
        /\ MayRevise(c.op, c.id)
        /\ db' = out.store
        /\ calls' = [calls EXCEPT ![i] = NoCall]
        /\ ev' = Ended(c, [res |-> FALSE, adm |-> FALSE, write |-> writeDown],
                       out.ret, out.store)
        /\ AuthzFrame

Settle(op, coll, id, user, f, out) ==
    /\ db' = out.store
    /\ ev' = AuthzEvent(op, coll, id, user, f, out.ret, out.store)
    /\ calls' = calls
    /\ AuthzFrame

\* addDoc generates an id that no document carries and no pending call names
FreshId(coll, id) ==
    /\ ~MapHas(db[coll], id)
    /\ \A t \in DOMAIN calls :
            ~(calls[t].coll = coll /\ (calls[t].id = id \/ id \in calls[t].left))

DoCreateArticle(id, author, title, image, writeDown) ==
    /\ DocCount(db) < MaxDocs
    /\ FreshId("articles", id)
    /\ Settle("createArticle", "articles", id, author,
              [res |-> FALSE, adm |-> FALSE, write |-> writeDown],
              createArticle(db, id, [authorId |-> author, title |-> title,
                                     imageUrl |-> image], writeDown))

DoCreateProject(id, author, name, image, writeDown) ==
    /\ DocCount(db) < MaxDocs
    /\ FreshId("projects", id)
    /\ Settle("createProject", "projects", id, author,
              [res |-> FALSE, adm |-> FALSE, write |-> writeDown],
              createProject(db, id, [authorId |-> author, name |-> name,
                                     imageUrl |-> image], writeDown))

DoSendChatMessage(id, author, content, writeDown) ==
    /\ DocCount(db) < MaxDocs
    /\ FreshId("chat", id)
    /\ Settle("sendChatMessage", "chat", id, author,
              [res |-> FALSE, adm |-> FALSE, write |-> writeDown],
              sendChatMessage(db, id, [authorId |-> author, content |-> content], writeDown))

\* security.ts:66: the document admins/uid, which isAdmin reads, is removed
\* from the collection (the code itself never writes that collection)
RevokeAdmin(uid) ==
    /\ uid \in admins
    /\ admins' = admins \ {uid}
    /\ ev' = [op |-> "revokeAdmin", phase |-> "none", id |-> uid, user |-> uid]
    /\ UNCHANGED <<now, loginAttempts, streak, calls, recentFails, db, ui, chat>>

InitAuthz ==
    /\ now = 0
    /\ loginAttempts = EmptyMap
    /\ streak = EmptyMap
    /\ ev = NoEvent
    /\ calls = [t \in Tickets |-> NoCall]
    /\ recentFails = NoFails
    /\ db = [c \in Collections |-> EmptyMap]
    /\ admins \in SUBSET Users
    /\ ui = NoUI
    /\ chat = NoChat

NextAuthz ==
    \/ \E u \in Users : \E d \in BOOLEAN : DoIsAdmin(u, d)
    \/ \E u \in Users : \E i \in DocIds : \E c \in Collections : \E d \in BOOLEAN :
            BeginChecked("verifyResourceOwnership", c, i, u, NoData, d)
    \/ \E op \in GuardedWrites : \E i \in DocIds : \E u \in Users : \E data \in DataOf(op) :
        \E d \in BOOLEAN : BeginChecked(op, CollOf(op), i, u, data, d)
    \/ \E i \in DocIds : \E u \in Users : \E d \in BOOLEAN : BeginDeleteChatMessage(i, u, d)
    \/ \E t \in DOMAIN calls : \E d \in BOOLEAN : AdminAnswered(t, d)
    \/ \E t \in DOMAIN calls : \E d \in BOOLEAN : WriteSettled(t, d)
    \/ \E u \in Users : \E d \in BOOLEAN : BeginClearAllChatMessages(u, d)
    \/ \E t \in DOMAIN calls : \E d \in BOOLEAN : ChatQueried(t, d)
    \/ \E t \in DOMAIN calls : \E i \in DocIds : \E d \in BOOLEAN : ChatDocDeleted(t, i, d)
    \/ \E i \in DocIds : \E u \in Users : \E t \in Titles : \E g \in Images :
        \E d \in BOOLEAN : DoCreateArticle(i, u, t, g, d)
    \/ \E i \in DocIds : \E u \in Users : \E t \in Titles : \E g \in Images :
        \E d \in BOOLEAN : DoCreateProject(i, u, t, g, d)
    \/ \E i \in DocIds : \E u \in Users : \E t \in Titles : \E d \in BOOLEAN :
            DoSendChatMessage(i, u, t, d)
    \/ \E u \in Users : RevokeAdmin(u)

SpecAuthz == InitAuthz /\ [][NextAuthz]_vars

----------------------------------------------------------------------------
(* SpecAuthzRace: updateArticle, deleteArticle, updateProject and           *)
(* deleteProject on a store that holds an article and a project, with more  *)
(* calls in flight and the admins collection edited in between.             *)

\* the store holds an article and a project created by u2
InitAuthzRace ==
    /\ now = 0
    /\ loginAttempts = EmptyMap
    /\ streak = EmptyMap
    /\ ev = NoEvent
    /\ calls = [t \in 1..MaxRacing |-> NoCall]
    /\ recentFails = NoFails
    /\ db = [c \in Collections |->
                IF c = "articles"
                THEN createArticle([k \in Collections |-> EmptyMap], "d1",
                                   [authorId |-> "u2", title |-> <<"A">>,
                                    imageUrl |-> <<"i">>], FALSE).store[c]
                ELSE IF c = "projects"
                THEN createProject([k \in Collections |-> EmptyMap], "d1",
                                   [authorId |-> "u2", name |-> <<"A">>,
                                    imageUrl |-> <<"i">>], FALSE).store[c]
                ELSE EmptyMap]
    /\ admins \in SUBSET Users
    /\ ui = NoUI
    /\ chat = NoChat

\* the texts given to the updates of this specification
RaceData(op) == { d \in DataOf(op) : d.authorId = NoOwner }

NextAuthzRace ==
    \/ \E op \in GuardedWrites : \E i \in DocIds : \E u \in Users : \E data \in RaceData(op) :
            BeginChecked(op, CollOf(op), i, u, data, FALSE)
    \/ \E t \in DOMAIN calls : AdminAnswered(t, FALSE)
    \/ \E t \in DOMAIN calls : WriteSettled(t, FALSE)
    \/ \E u \in Users : RevokeAdmin(u)

SpecAuthzRace == InitAuthzRace /\ [][NextAuthzRace]_vars

----------------------------------------------------------------------------
(* Claims about the throttle, checked under SpecThrottle *)

FifteenMinutes == 15 * 60 * 1000

\* C1: isRateLimited(identifier) returns true if and only if a record exists
\* for the identifier, its count is >= 5 and now - lastAttempt <= 15 minutes.
C1_RateLimitedIff ==
    ev.op = "isRateLimited" =>
        (ev.ret <=> (/\ ev.had
                     /\ ev.pre.count >= 5
                     /\ now - ev.pre.lastAttempt <= FifteenMinutes))

\* a blocked answer exactly at the edge of the window
C1_Witness ==
    /\ ev.op = "isRateLimited"
    /\ ev.ret
    /\ now - ev.pre.lastAttempt = FifteenMinutes

\* C2: starting from no record, after exactly 5 consecutive failures recorded
\* within the lockout window isRateLimited returns true; after 4 it returns false.
C2_FiveFailuresBlock ==
    (ev.op = "isRateLimited" /\ now - ev.streak.first <= FifteenMinutes) =>
        /\ (ev.streak.n = 5 => ev.ret)
        /\ (ev.streak.n = 4 => ~ev.ret)

C2_Witness ==
    /\ ev.op = "isRateLimited"
    /\ ev.streak.n = 5
    /\ now - ev.streak.first <= FifteenMinutes
    /\ now > ev.streak.first
    /\ ev.ret

\* C3: recordLoginAttempt(identifier, true) leaves no record for the identifier,
\* whatever failures were recorded before; with no failure recorded since, the
\* next isRateLimited returns false and the next failure counts from 1.
C3_SuccessResets ==
    /\ (ev.op = "recordLoginAttempt" /\ ev.success) => ~MapHas(loginAttempts, ev.id)
    /\ (ev.op = "isRateLimited" /\ ev.streak.n = 0) => ~ev.ret
    /\ (ev.op = "recordLoginAttempt" /\ ~ev.success /\ ev.streak.n = 0) =>
            /\ MapHas(loginAttempts, ev.id)
            /\ loginAttempts[ev.id].count = 1

\* a success recorded on a blocked identifier
C3_Witness ==
    /\ ev.op = "recordLoginAttempt"
    /\ ev.success
    /\ ev.pre.count >= 5
    /\ now - ev.pre.lastAttempt <= FifteenMinutes

\* C4: once more than 15 minutes have passed since lastAttempt, isRateLimited
\* returns false even with a stored count >= 5, and removes the stale record.
C4_ExpiredRecordPurged ==
    (ev.op = "isRateLimited" /\ ev.had /\ now - ev.pre.lastAttempt > FifteenMinutes) =>
        /\ ~ev.ret
        /\ ~MapHas(loginAttempts, ev.id)

C4_Witness ==
    /\ ev.op = "isRateLimited"
    /\ ev.had
    /\ ev.pre.count >= 5
    /\ now - ev.pre.lastAttempt = FifteenMinutes + 1
    /\ ~MapHas(loginAttempts, ev.id)

----------------------------------------------------------------------------
(* Claims about the login operations, checked under SpecLogin *)

\* C5: within one browsing session, once login has failed 5 times in a row
\* within 1 minute, the next login attempt (well-formed credentials, made in
\* that same minute, nothing else in flight) is rejected with the rate-limit
\* error and the identity provider is not contacted for it.
C5_SixthAttemptRejected ==
    (/\ ev.op \in {"authenticateUser", "authenticateAdmin"}
     /\ ev.phase = "start"
     /\ ev.wellFormed
     /\ recentFails.n = 5
     /\ now - recentFails.first <= OneMinute
     /\ Cardinality({t \in Tickets : InFlight(t)}) = (IF ev.contacted THEN 1 ELSE 0)) =>
        /\ ev.outcome = "RateLimited"
        /\ ~ev.contacted

----------------------------------------------------------------------------
(* Claims about the ownership check and the guarded mutations, checked      *)
(* under SpecAuthz                                                          *)

IsVerify == ev.op = "verifyResourceOwnership"
Returned(v) == ev.ret.kind = "return" /\ ev.ret.val = v
IsOwner == ev.existed /\ ev.owner = ev.user
InAdminSet == ev.user \in admins

\* C6 as stated: with the store answering, verifyResourceOwnership returns
\* exactly ownsResource(principal, resource, class) OR isAdmin(principal),
\* ownsResource being false for a resource that does not exist.
C6_ExactlyOwnerOrAdmin ==
    (IsVerify /\ ev.f = NoFault) => Returned(IsOwner \/ InAdminSet)

\* C6 amended: verifyResourceOwnership returns true exactly when the resource
\* exists and is read, and the principal is its authorId or isAdmin(principal)
\* answers true (which it does not when the admin lookup fails); for a resource
\* that does not exist it returns false, for a privileged principal too.
C6_OwnerOrAdminOfExisting ==
    IsVerify =>
        Returned(/\ ev.existed
                 /\ ~ev.f.res
                 /\ (ev.owner = ev.user \/ (InAdminSet /\ ~ev.f.adm)))

\* a privileged principal that does not own the resource is let through
C6_Witness ==
    /\ IsVerify
    /\ ev.existed
    /\ ev.owner # ev.user
    /\ InAdminSet
    /\ Returned(TRUE)

\* C7 as stated: for every existing resource, the check called with the
\* resource's authorId as principal returns true.
C7_OwnerAlwaysAuthorized ==
    (IsVerify /\ IsOwner) => Returned(TRUE)

\* C7 amended: for every existing resource whose read succeeds, the check called
\* with the resource's authorId as principal returns true, whether or not that
\* principal is privileged; the admin lookup is not made for the owner.
C7_OwnerAuthorizedWhenRead ==
    (IsVerify /\ IsOwner /\ ~ev.f.res) => Returned(TRUE)

C7_Witness ==
    /\ IsVerify
    /\ IsOwner
    /\ ~InAdminSet
    /\ Returned(TRUE)

\* C8 as stated: for every existing resource, a principal that is neither its
\* authorId nor in the admin set gets false, and the owner gets true.
C8_StrangerRefusedOwnerAdmitted ==
    (IsVerify /\ ev.existed) =>
        /\ (ev.owner # ev.user /\ ~InAdminSet) => Returned(FALSE)
        /\ (ev.owner = ev.user) => Returned(TRUE)

\* C8 amended: for every existing resource, a principal that is neither its
\* authorId nor in the admin set gets false; the owner gets true when the read
\* of the resource succeeds.
C8_StrangerRefused ==
    (IsVerify /\ ev.existed) =>
        /\ (ev.owner # ev.user /\ ~InAdminSet) => Returned(FALSE)
        /\ (ev.owner = ev.user /\ ~ev.f.res) => Returned(TRUE)

C8_Witness ==
    /\ IsVerify
    /\ ev.existed
    /\ ev.owner # ev.user
    /\ ~InAdminSet
    /\ ev.f = NoFault
    /\ Returned(FALSE)

\* C9: isAdmin and verifyResourceOwnership never throw; a missing resource, a
\* failed read of the resource, or a failed admin lookup for a principal that
\* is not the owner gives false.
C9_FailClosed ==
    /\ ev.op \in {"isAdmin", "verifyResourceOwnership"} => ev.ret.kind = "return"
    /\ (ev.op = "isAdmin" /\ ev.f.adm) => Returned(FALSE)
    /\ (IsVerify /\ (~ev.existed \/ ev.f.res)) => Returned(FALSE)
    /\ (IsVerify /\ ev.f.adm /\ ev.owner # ev.user) => Returned(FALSE)

\* an admin that is not the owner is refused while the admin lookup fails
C9_Witness ==
    /\ IsVerify
    /\ ev.existed
    /\ ev.owner # ev.user
    /\ InAdminSet
    /\ ev.f.adm
    /\ Returned(FALSE)

GuardedOps == {"updateArticle", "deleteArticle", "updateProject", "deleteProject",
               "deleteChatMessage"}

\* C10 as stated: with the store answering, an update or delete of an existing
\* article, project or chat message changes it if and only if the principal is
\* its authorId or in the admin set; otherwise it is unchanged and the call fails.
C10_OwnerOrAdminMutates ==
    (ev.op \in GuardedOps /\ ev.existed /\ ev.f = NoFault) =>
        /\ ev.changed <=> (ev.owner = ev.user \/ InAdminSet)
        /\ ~ev.changed => ev.ret.kind = "throw"

\* who the code lets through: for articles and projects the authorId its read
\* of the resource found, or whom isAdmin answered true for; for chat messages
\* the latter alone
Permitted == IF ev.op = "deleteChatMessage" THEN ev.said
             ELSE (ev.owner = ev.user \/ ev.said)

\* C10 amended: updateArticle, deleteArticle, updateProject and deleteProject
\* change the document only if their check found the principal to be its
\* authorId or in the admin set, and do so when the store answers and the
\* document is still there at the write; deleteChatMessage deletes only for a
\* principal isAdmin answered true for, authorship not sufficing; a document
\* that is there when the call ends and was left unchanged means the call
\* failed.
C10_GuardedMutation ==
    ev.op \in GuardedOps =>
        /\ ev.changed => (ev.existed /\ Permitted /\ ev.ret.kind = "return")
        /\ (ev.existed /\ Permitted /\ ev.f = NoFault /\ ev.ownerNow # NoOwner) => ev.changed
        /\ (ev.ownerNow # NoOwner /\ ~ev.changed) => ev.ret.kind = "throw"

\* an author outside the admin set updates the author's own article
C10_Witness ==
    /\ ev.op = "updateArticle"
    /\ ev.changed
    /\ ev.owner = ev.user
    /\ ~InAdminSet
    /\ ev.ret.kind = "return"

----------------------------------------------------------------------------
(* Claims about login and registration attempts, checked under SpecAttempts *)

\* authenticateAdmin has run to its first await or to its end on an email
\* that contains neither 'admin' nor 'deepbug'
MarkerMissing ==
    /\ ev.op = "authenticateAdmin"
    /\ ev.phase = "start"
    /\ ~ev.wellFormed

\* C11 as stated: authenticateAdmin called with an email without administrative
\* marker leaves the throttle table as it was and does not contact the
\* identity provider.
C11_NoAttemptConsumed ==
    MarkerMissing => (ev.same /\ ~ev.contacted)

\* authenticateAdmin has ended after isAdmin answered false and signOut settled
NotPrivilegedEnded ==
    /\ ev.op = "authenticateAdmin"
    /\ ev.phase = "done"
    /\ ev.stage = "signOut"

\* C12: when authenticateAdmin's credential check succeeds and isAdmin returns
\* false, signOut is called, the call fails with the unauthorized error, and a
\* failed attempt is recorded in the throttle for the attempt's identifier.
C12_NotPrivilegedUnauthorized ==
    NotPrivilegedEnded =>
        /\ ev.outcome = "NotAuthorized"
        /\ MapHas(loginAttempts, ev.id)
        /\ loginAttempts[ev.id].lastAttempt = now
        /\ ev.raised >= 1

\* authenticateAdmin has ended right after isAdmin settled
RoleCheckEnded ==
    /\ ev.op = "authenticateAdmin"
    /\ ev.phase = "done"
    /\ ev.stage = "isAdmin"

\* C13: authenticateAdmin returns success only for accepted credentials of a
\* privileged principal, and when it does no throttle record remains for the
\* attempt's identifier; an attempt that ends right after the role check is
\* such a success.
C13_SuccessClearsRecord ==
    /\ (ev.op = "authenticateAdmin" /\ ev.phase = "done" /\ ev.outcome = "ok") =>
            /\ RoleCheckEnded
            /\ ev.uid \in admins
            /\ ~MapHas(loginAttempts, ev.id)
            /\ ev.raised = 0
    /\ RoleCheckEnded => ev.outcome = "ok"

C13_Witness ==
    /\ RoleCheckEnded
    /\ ev.outcome = "ok"
    /\ ev.had

\* the terminal states of an authenticateAdmin attempt, told by what the attempt
\* did: Blocked by the throttle; Invalid, ended in the credential check (the
\* email has no marker, or the provider rejected); NotPrivileged, ended after
\* the role lookup answered false; Authorized
AdminEnded ==
    /\ ev.op = "authenticateAdmin"
    /\ \/ ev.phase = "start" /\ ev.outcome # "pending"
       \/ ev.phase = "done"
Blocked == ev.phase = "start" /\ ev.outcome = "RateLimited"
Invalid ==
    \/ ev.phase = "start" /\ ev.outcome = "NotAuthorized"
    \/ ev.phase = "done" /\ ev.stage = "signIn"
NotPrivileged == ev.phase = "done" /\ ev.stage = "signOut"
Authorized == ev.phase = "done" /\ ev.stage = "isAdmin" /\ ev.outcome = "ok"

BoolToNat(b) == IF b THEN 1 ELSE 0

\* C14: every authenticateAdmin attempt goes through ThrottleCheck, then
\* CredentialCheck, then RoleCheck, and ends in exactly one of Blocked, Invalid,
\* NotPrivileged and Authorized; the provider is not contacted in a Blocked
\* attempt, an attempt is Blocked exactly when its identifier's count had
\* reached the limit as it began, the role lookup and the sign-out happen only for a
\* principal the provider returned, and only Authorized succeeds.
C14_StateMachine ==
    /\ AdminEnded =>
            /\ BoolToNat(Blocked) + BoolToNat(Invalid) + BoolToNat(NotPrivileged)
                    + BoolToNat(Authorized) = 1
            /\ Blocked => (~ev.contacted /\ ev.same)
            /\ ev.phase = "start" =>
                    (Blocked <=> RecordOf(loginAttempts, ev.id).count - ev.raised
                                    >= MAX_LOGIN_ATTEMPTS)
            /\ (ev.phase = "done" /\ ev.stage \in {"isAdmin", "signOut"}) => ev.uid \in Users
            /\ (ev.phase = "done" /\ ev.stage = "signIn") => ev.uid = "none"
            /\ (ev.outcome = "ok") <=> Authorized
    /\ (ev.op = "authenticateAdmin" /\ ev.phase = "start" /\ ev.outcome = "pending") =>
            /\ ev.contacted
            /\ RecordOf(loginAttempts, ev.id).count < MAX_LOGIN_ATTEMPTS
    /\ \A t \in Tickets :
            calls[t].fn = "authenticateAdmin" =>
                /\ calls[t].pc \in {"signIn", "isAdmin", "signOut"}
                /\ (calls[t].pc = "signIn") <=> (calls[t].uid = "none")
                /\ calls[t].pc = "signOut" => calls[t].uid \in Users

C14_Witness ==
    /\ AdminEnded
    /\ Blocked
    /\ ev.wellFormed

\* C15: with every awaited external call eventually resolving or rejecting,
\* every invocation of authenticateUser, authenticateAdmin and registerUser
\* that is in flight eventually ends, and an invocation leaves flight only by
\* ending with its outcome: none is cancelled.
C15_AttemptsComplete ==
    /\ \A t \in Tickets : InFlight(t) ~> ~InFlight(t)
    /\ [][\A t \in Tickets :
            (InFlight(t) /\ ~InFlight(t)') =>
                (ev'.phase = "done" /\ ev'.op = calls[t].fn /\ ev'.id = calls[t].id)]_vars

C15_Witness ==
    \E t \in Tickets : calls[t].fn = "registerUser" /\ calls[t].pc = "setDoc"

\* a login attempt that passed the throttle check has ended with an
\* authentication or authorization outcome
LoginOutcome ==
    /\ ev.op \in {"authenticateUser", "authenticateAdmin"}
    /\ \/ ev.phase = "done"
       \/ ev.phase = "start" /\ ev.outcome = "NotAuthorized"

\* C16: when authenticateUser or authenticateAdmin ends with an authentication
\* or authorization outcome, the throttle holds that outcome: after a success
\* no record of the identifier, after a failure a record with a raised count
\* and lastAttempt now.
C16_OutcomeRecorded ==
    LoginOutcome =>
        IF ev.outcome = "ok"
        THEN ~MapHas(loginAttempts, ev.id)
        ELSE /\ MapHas(loginAttempts, ev.id)
             /\ loginAttempts[ev.id].lastAttempt = now
             /\ ev.raised >= 1

C16_Witness ==
    /\ LoginOutcome
    /\ ev.op = "authenticateUser"
    /\ ev.outcome = "LoginError"
    /\ ev.had

\* C17: a login the provider rejected with user-not-found and one it rejected
\* with wrong-password surface the same error to the caller of authenticateUser
\* and authenticateAdmin, the generic bad-credentials error, never the
\* provider's own.
C17_IdentifierAgnostic ==
    (/\ ev.op \in {"authenticateUser", "authenticateAdmin"}
     /\ ev.phase = "done"
     /\ ev.code \in {"auth/user-not-found", "auth/wrong-password"}) =>
        /\ ev.outcome \notin ProviderErrors
        /\ ev.outcome = "BadCredentials"

\* C18: authenticateUser, registerUser and authenticateAdmin contact the
\* identity provider only with arguments that pass validateEmail,
\* validatePassword and (for registration) validateName.
C18_ValidatedBeforeContact ==
    (/\ ev.op \in {"authenticateUser", "authenticateAdmin", "registerUser"}
     /\ ev.phase = "start"
     /\ ev.contacted) => ev.valid

----------------------------------------------------------------------------
(* Claims about the records of the throttle table, checked under SpecThrottle *)

\* C19: every record stored in the throttle table has count >= 1; a failure
\* creates the record with count 1 or raises its count by one, a success
\* deletes it.
C19_StoredCountPositive ==
    /\ \A k \in DOMAIN loginAttempts : loginAttempts[k].count >= 1
    /\ (ev.op = "recordLoginAttempt" /\ ~ev.success) =>
            /\ MapHas(loginAttempts, ev.id)
            /\ loginAttempts[ev.id].count = ev.pre.count + 1
    /\ (ev.op = "recordLoginAttempt" /\ ev.success) => ~MapHas(loginAttempts, ev.id)

C19_Witness ==
    /\ ev.op = "recordLoginAttempt"
    /\ ev.success
    /\ ev.had
    /\ DOMAIN loginAttempts # {}

\* C20: recordLoginAttempt(identifier, false) on a record whose lastAttempt is
\* more than 15 minutes old stores count 1, as for an absent record.
C20_ExpiredRecordIsAbsent ==
    (/\ ev.op = "recordLoginAttempt"
     /\ ~ev.success
     /\ ev.had
     /\ now - ev.pre.lastAttempt > FifteenMinutes) =>
        loginAttempts[ev.id].count = 1

\* an attempt was turned away with the rate-limit error
AttemptBlocked ==
    /\ ev.op \in {"authenticateUser", "authenticateAdmin", "registerUser"}
    /\ ev.phase = "start"
    /\ ev.outcome = "RateLimited"

\* C24: an attempt that authenticateUser, authenticateAdmin or registerUser
\* turns away with the rate-limit error leaves the throttle table as it was and
\* does not reach the identity provider, the identifier's record being the one
\* of its last recorded failure; a throttle check that finds an identifier
\* blocked leaves the table as it was too, and a check made more than 15
\* minutes after the identifier's last recorded failure finds it not blocked,
\* whatever attempts and checks were refused in between.
C24_LockoutNotExtended ==
    /\ AttemptBlocked =>
            /\ ev.same
            /\ ~ev.contacted
            /\ ev.had
            /\ loginAttempts[ev.id].count >= MAX_LOGIN_ATTEMPTS
    /\ ev.op = "isRateLimited" =>
            /\ ev.ret => ev.same
            /\ (ev.had /\ now - ev.pre.lastAttempt > FifteenMinutes) => ~ev.ret
            /\ ev.ret => (ev.had /\ RecordOf(loginAttempts, ev.id) = ev.pre)

\* registerUser was turned away while the identifier is blocked
C24_Witness ==
    /\ AttemptBlocked
    /\ ev.op = "registerUser"
    /\ ev.same
    /\ loginAttempts[ev.id].count >= MAX_LOGIN_ATTEMPTS

\* a blocked identifier found unblocked by a check more than 15 minutes after
\* its last recorded failure
Rehabilitated ==
    /\ ev.op = "isRateLimited"
    /\ ~ev.ret
    /\ ev.had
    /\ ev.pre.count >= MAX_LOGIN_ATTEMPTS
    /\ now - ev.pre.lastAttempt > FifteenMinutes

----------------------------------------------------------------------------
(* Further claims about login and registration attempts, checked under      *)
(* SpecAttempts                                                             *)

\* C25: every failing path of authenticateAdmin (marker missing, credentials
\* rejected, principal not privileged) and of authenticateUser raises the
\* identifier's count by exactly one.
C25_FailureCountsOnce ==
    (LoginOutcome /\ ev.outcome # "ok") => ev.raised = 1

\* C30: when registerUser throws after contacting the provider, no account
\* was created (and with it no profile document) and a failure was recorded;
\* when it returns, the account was created and its profile document written.
C30_RegisterAllOrNothing ==
    (ev.op = "registerUser" /\ ev.phase = "done") =>
        IF ev.outcome = "ok"
        THEN ev.uid \in NewUsers /\ ev.stage = "setDoc" /\ ev.code = "none"
        ELSE /\ ev.uid = "none"
             /\ MapHas(loginAttempts, ev.id)
             /\ ev.raised >= 1

----------------------------------------------------------------------------
(* Claim about racing logins, checked under SpecRace *)

\* C26: for every identifier at most 5 credential checks reach the identity
\* provider without a success in between, however the attempts interleave,
\* and every failure that comes back raises the count by one.
C26_AtMostFiveChecks ==
    /\ \A i \in DOMAIN streak : streak[i].n <= MAX_LOGIN_ATTEMPTS
    /\ (ev.op = "authenticateUser" /\ ev.phase = "done" /\ ev.outcome # "ok") =>
            ev.raised = 1

----------------------------------------------------------------------------
(* Further claims about the guarded mutations, checked under SpecAuthz *)

\* C29: updateArticle and updateProject leave the document's authorId as it
\* was, whatever authorId the caller passes in updateData, and a created
\* article or project carries the authorId it was created with.
C29_OwnershipImmutable ==
    /\ ev.op \in {"updateArticle", "updateProject"} =>
            OwnerOf(db, ev.coll, ev.id) = ev.ownerNow
    /\ (ev.op \in {"createArticle", "createProject"} /\ ev.ret.kind = "return") =>
            OwnerOf(db, ev.coll, ev.id) = ev.user

C29_Witness ==
    /\ ev.op = "updateArticle"
    /\ ev.changed
    /\ ev.user # ev.owner
    /\ db["articles"][ev.id].title = <<"T">>

----------------------------------------------------------------------------
(* Claim about the moment of the write, checked under SpecAuthzRace *)

\* C28: whenever updateArticle, deleteArticle, updateProject or deleteProject
\* changes the store, the requesting principal is, in the store as it is at
\* that moment, the document's owner or an admin.
C28_AuthorizedAtWrite ==
    (ev.op \in GuardedWrites /\ ev.changed) =>
        (ev.ownerNow = ev.user \/ ev.user \in admins)


----------------------------------------------------------------------------
(* SpecAuthUI: the page's AuthManager (part_001), Router (utils/router.ts)  *)
(* and the admin panel element.  ui.auth is the user Firebase Auth holds    *)
(* signed in (it survives a reload); ui.currentUser / ui.isUserAdmin are    *)
(* the AuthManager fields; ui.panel is TRUE when #admin-panel does not      *)
(* carry the class "hidden".  calls holds the page's pending awaits.        *)

AdminPath == "/admin_deep_bug_admin"
Paths == {"/", AdminPath}

NoAwait == [fn |-> "idle", id |-> "none"]
Awaiting(i) == calls[i] # NoAwait
HasFreeSlot == \E i \in DOMAIN calls : ~Awaiting(i)
FreeSlot == CHOOSE i \in DOMAIN calls : ~Awaiting(i)

\* part_001:316-322
requireAdmin(u) == ~(u.currentUser = "none" \/ ~u.isUserAdmin)

\* a document load: fields at their initial values (part_001:10-11), the
\* panel hidden, the awaits of the page that was left are gone
FreshPage(path) ==
    [auth |-> ui.auth, currentUser |-> "none", isUserAdmin |-> FALSE,
     path |-> path, panel |-> FALSE]

InitAuthUI ==
    /\ now = 0
    /\ loginAttempts = EmptyMap
    /\ streak = EmptyMap
    /\ ev = NoEvent
    /\ calls = [t \in 1..MaxRacing |-> NoAwait]
    /\ recentFails = NoFails
    /\ db = EmptyMap
    /\ admins = {"u1"}
    /\ ui = NoUI
    /\ chat = NoChat

UIFrame == UNCHANGED <<now, loginAttempts, streak, recentFails, db, admins, chat>>

\* The app is opened at path: the AuthManager is constructed (part_001:14-17,
\* 26-65) and, on the admin path, handleAdminRouteAccess (119-146) runs up to
\* its await; currentUser is still null then, so it prompts.  given: both
\* prompts were answered; otherwise location.href = '/' loads the home page.
LoadPage(path, given) ==
    /\ ui' = FreshPage(IF path = AdminPath /\ ~given THEN "/" ELSE path)
    /\ calls' = [i \in DOMAIN calls |->
                    IF path = AdminPath /\ given /\ i = 1
                    THEN [fn |-> "authenticateAdmin", id |-> "none"]
                    ELSE NoAwait]
    /\ ev' = [op |-> "load", id |-> path]
    /\ UIFrame

\* part_001:27-40 up to the await: Firebase tells the listener the user it
\* holds, when that is not the user the listener was last told
OnAuthStateChanged ==
    /\ ui.currentUser # ui.auth
    /\ IF ui.auth # "none"
       THEN /\ HasFreeSlot
            /\ ui' = [ui EXCEPT !.currentUser = ui.auth]
            /\ calls' = [calls EXCEPT ![FreeSlot] = [fn |-> "isAdmin", id |-> ui.auth]]
       ELSE /\ ui' = [ui EXCEPT !.currentUser = "none", !.isUserAdmin = FALSE]
            /\ calls' = calls
    /\ ev' = [op |-> "onAuthStateChanged", id |-> ui.auth]
    /\ UIFrame

\* part_001:32-33: the awaited isAdmin(user.uid) settles and its value is
\* assigned to isUserAdmin
AdminLookupSettled(i, admDown) ==
    /\ calls[i].fn = "isAdmin"
    /\ ui' = [ui EXCEPT !.isUserAdmin = isAdmin(admins, calls[i].id, admDown).val]
    /\ calls' = [calls EXCEPT ![i] = NoAwait]
    /\ ev' = [op |-> "isAdminSettled", id |-> calls[i].id]
    /\ UIFrame

\* part_001:181-203, 231-242: the sign-in of a login submitted through the
\* auth modal settles and u is signed in.  The modal opens while currentUser
\* is null (46-52); a login submitted then may settle at any later moment,
\* also after another one has.
SignIn(u) ==
    /\ ui.auth # u
    /\ ui' = [ui EXCEPT !.auth = u]
    /\ ev' = [op |-> "signIn", id |-> u]
    /\ UNCHANGED calls
    /\ UIFrame

\* part_001:244-246, 254-256: logout up to the settling of its signOut; when
\* signOut fails only a toast is shown
logout(signedOut) ==
    /\ IF ~signedOut
       THEN UNCHANGED <<ui, calls>>
       ELSE /\ HasFreeSlot
            /\ ui' = [ui EXCEPT !.auth = "none"]
            /\ calls' = [calls EXCEPT ![FreeSlot] = [fn |-> "logout", id |-> "none"]]
    /\ ev' = [op |-> "logout", id |-> IF signedOut THEN "await" ELSE "failed"]
    /\ UIFrame

\* part_001:247-253: the rest of logout: the panel is hidden, and on the admin
\* path location.href = '/' loads the home page
LoggedOut(i) ==
    /\ calls[i].fn = "logout"
    /\ IF ui.path = AdminPath
       THEN /\ ui' = FreshPage("/")
            /\ calls' = [k \in DOMAIN calls |-> NoAwait]
       ELSE /\ ui' = [ui EXCEPT !.panel = FALSE]
            /\ calls' = [calls EXCEPT ![i] = NoAwait]
    /\ ev' = [op |-> "logout", id |-> "done"]
    /\ UIFrame

\* security.ts:76-89: the awaited signInWithEmailAndPassword of
\* authenticateAdmin settles and u is signed in; ~accepted: it threw, or
\* authenticateAdmin threw before it (78-87), and the catch of part_001:135-138
\* loads the home page
AdminSignInSettled(i, accepted, u) ==
    /\ calls[i].fn = "authenticateAdmin"
    /\ IF accepted
       THEN /\ ui' = [ui EXCEPT !.auth = u]
            /\ calls' = [calls EXCEPT ![i] = [fn |-> "adminIsAdmin", id |-> u]]
       ELSE /\ ui' = FreshPage("/")
            /\ calls' = [k \in DOMAIN calls |-> NoAwait]
    /\ ev' = [op |-> "adminSignIn", id |-> IF accepted THEN u ELSE "rejected"]
    /\ UIFrame

\* security.ts:90-92, 98-99, part_001:133-134: the awaited isAdmin of
\* authenticateAdmin settles; when it holds authenticateAdmin returns and
\* showAdminPanel runs, otherwise signOut is awaited
AdminAccessSettled(i, admDown) ==
    /\ calls[i].fn = "adminIsAdmin"
    /\ IF isAdmin(admins, calls[i].id, admDown).val
       THEN /\ ui' = [ui EXCEPT !.panel = TRUE]
            /\ calls' = [calls EXCEPT ![i] = NoAwait]
            /\ ev' = [op |-> "adminAccess", id |-> "accepted"]
       ELSE /\ ui' = ui
            /\ calls' = [calls EXCEPT ![i] = [fn |-> "adminSignOut", id |-> calls[i].id]]
            /\ ev' = [op |-> "adminAccess", id |-> "notPrivileged"]
    /\ UIFrame

\* security.ts:93-95, 100-103, part_001:135-138: the awaited signOut settles
\* (signedOut: nobody is signed in afterwards), authenticateAdmin throws and
\* the catch of handleAdminRouteAccess loads the home page
AdminSignedOut(i, signedOut) ==
    /\ calls[i].fn = "adminSignOut"
    /\ ui' = [FreshPage("/") EXCEPT !.auth = IF signedOut THEN "none" ELSE ui.auth]
    /\ calls' = [k \in DOMAIN calls |-> NoAwait]
    /\ ev' = [op |-> "adminSignOut", id |-> IF signedOut THEN "done" ELSE "failed"]
    /\ UIFrame

\* router.ts:39-69, 89-95 (popstate, navigate or the router's construction)
handleRouteChange(path) ==
    /\ ui' = [ui EXCEPT !.path = path,
                        !.panel = IF path = AdminPath THEN TRUE ELSE ui.panel]
    /\ ev' = [op |-> "handleRouteChange", id |-> path]
    /\ UNCHANGED calls
    /\ UIFrame

\* part_002:475-479
closeAdminPanel ==
    /\ ui.panel
    /\ ui' = [ui EXCEPT !.panel = FALSE, !.path = "/"]
    /\ ev' = [op |-> "closeAdminPanel", id |-> "/"]
    /\ UNCHANGED calls
    /\ UIFrame

\* index.ts:78-81, 122-132: Escape; the panel is hidden and the location
\* stays as it is
closeAllModals ==
    /\ ui' = [ui EXCEPT !.panel = FALSE]
    /\ ev' = [op |-> "closeAllModals", id |-> ui.path]
    /\ UNCHANGED calls
    /\ UIFrame

NextAuthUI ==
    \/ \E p \in Paths : \E given \in BOOLEAN : LoadPage(p, given)
    \/ OnAuthStateChanged
    \/ \E i \in DOMAIN calls : \E admDown \in BOOLEAN : AdminLookupSettled(i, admDown)
    \/ \E u \in Users : SignIn(u)
    \/ \E signedOut \in BOOLEAN : logout(signedOut)
    \/ \E i \in DOMAIN calls : LoggedOut(i)
    \/ \E i \in DOMAIN calls : \E a \in BOOLEAN : \E u \in Users : AdminSignInSettled(i, a, u)
    \/ \E i \in DOMAIN calls : \E admDown \in BOOLEAN : AdminAccessSettled(i, admDown)
    \/ \E i \in DOMAIN calls : \E signedOut \in BOOLEAN : AdminSignedOut(i, signedOut)
    \/ \E p \in Paths : handleRouteChange(p)
    \/ closeAdminPanel
    \/ closeAllModals

SpecAuthUI == InitAuthUI /\ [][NextAuthUI]_vars

\* C27: in AuthManager, isUserAdmin is true only while currentUser is
\* non-null and that same user is in the admin set, so requireAdmin() never
\* returns true while the current user is a non-admin.
C27_AdminFlagMatchesUser ==
    /\ ui.isUserAdmin => ui.currentUser # "none" /\ ui.currentUser \in admins
    /\ requireAdmin(ui) => ui.currentUser \in admins

\* C21: the admin panel is shown only if the user signed in is in the admin
\* set.
C21_PanelOnlyForAdmin ==
    ui.panel => ui.auth # "none" /\ ui.auth \in admins


----------------------------------------------------------------------------
(* SpecChat: ChatManager (components/chat.ts), the ban functions            *)
(* (security.ts:219-244), signInWithGoogle (security.ts:184-203), the chat  *)
(* settings (part_000:324-350) and the chat operations of part_000:247-305. *)
(* chat.isEnabled is the field of the document settings/chat,               *)
(* chat.profiles the users that have a users document, chat.banned those    *)
(* whose document carries isBannedFromChat = true.  chat.chatEnabled is the *)
(* ChatManager field, and chat.listening tells whether the send button and  *)
(* the input have their handlers (chat.ts:71-88).  Pending calls are kept   *)
(* as in SpecAuthz; for the calls of this section, pc "settings": the       *)
(* answer of getChatSettings is awaited (flag), pc "setting" and "ban": the *)
(* updateDoc is awaited, pc "lookup": sendMessage goes on after its ban     *)
(* lookup (flag: the user carried the ban when it was made, so that the     *)
(* lookup had failed), pc "addDoc": its addDoc is awaited, pc "getDoc" and  *)
(* "setDoc": signInWithGoogle awaits its read or its write of users/uid.    *)

\* the user at the page of the ChatManager, who sends, signs in with Google and
\* is the one banned; the callers of the administrative functions are Users
Chatters == {"u2"}

LongText == [i \in 1..501 |-> "a"]
\* what the input holds
Messages == { <<"h", "i">>, <<" ">>, LongText, <<"1", "<", "2">> }

\* security.ts:233-244
isUserBannedFromChat(bannedSet, userId, unreachable) ==
    IF unreachable THEN FALSE ELSE userId \in bannedSet

\* security.ts:220-230; profiles are the users with a users document, .set the
\* users with the flag afterwards; updateDoc rejects when there is no document
banUserFromChat(adminSet, profiles, bannedSet, adminId, userId, admDown, writeDown) ==
    IF ~isAdmin(adminSet, adminId, admDown).val
    THEN [ret |-> Throw("notAllowed"), set |-> bannedSet]
    ELSE IF writeDown THEN [ret |-> Throw("unavailable"), set |-> bannedSet]
    ELSE IF userId \notin profiles THEN [ret |-> Throw("not-found"), set |-> bannedSet]
    ELSE [ret |-> Return("void"), set |-> bannedSet \cup {userId}]

\* part_000:325-337
getChatSettings(stored, unreachable) ==
    IF unreachable THEN [isEnabled |-> TRUE] ELSE [isEnabled |-> stored]

\* part_000:339-350; .stored is the document's isEnabled afterwards
updateChatSettings(adminSet, stored, userId, settings, admDown, writeDown) ==
    IF ~isAdmin(adminSet, userId, admDown).val \/ writeDown
    THEN [ret |-> Throw("updateChatSettingsFailed"), stored |-> stored]
    ELSE [ret |-> Return("void"), stored |-> settings.isEnabled]

\* the store at the start: the admin has a users document, the other user has
\* one or has not signed in yet
InitChat ==
    /\ now = 0
    /\ loginAttempts = EmptyMap
    /\ streak = EmptyMap
    /\ ev = NoEvent
    /\ calls = [i \in 1..MaxRacing |-> NoCall]
    /\ recentFails = NoFails
    /\ db = [c \in Collections |-> EmptyMap]
    /\ admins = {"u1"}
    /\ ui = NoUI
    /\ chat \in { [NoChat EXCEPT !.profiles = p] : p \in { {"u1"}, Users } }

ChatFrame == UNCHANGED <<now, loginAttempts, streak, recentFails, admins, ui>>

\* chat.ts:19-30, 32-41: the page is loaded; getInstance constructs the one
\* ChatManager, whose constructor calls initializeChat, which awaits
\* getChatSettings; the settings document is read
initializeChat(settingsDown) ==
    /\ ~chat.ready
    /\ \A i \in DOMAIN calls : calls[i].op # "initializeChat"
    /\ HasFreeCall
    /\ calls' = [calls EXCEPT ![FreeCall] =
                    [NoCall EXCEPT !.op = "initializeChat", !.coll = "settings",
                        !.pc = "settings",
                        !.flag = getChatSettings(chat.isEnabled, settingsDown).isEnabled]]
    /\ ev' = [op |-> "await", of |-> "initializeChat"]
    /\ UNCHANGED <<db, chat>>
    /\ ChatFrame

\* chat.ts:35-36, 41-43, 71-88: getChatSettings has settled; chatEnabled is
\* set and the handlers are attached when it is true
ChatSettingsAnswered(i) ==
    LET c == calls[i]
    IN  /\ c.op = "initializeChat"
        /\ chat' = [chat EXCEPT !.chatEnabled = c.flag, !.ready = TRUE,
                                !.listening = c.flag]
        /\ calls' = [calls EXCEPT ![i] = NoCall]
        /\ ev' = [op |-> "initializeChat", enabled |-> chat.isEnabled]
        /\ db' = db
        /\ ChatFrame

\* the calls that end with the page: those that await a read, after which
\* code of the page would go on (getChatSettings of initializeChat, the ban
\* lookup of sendMessage, the getDoc of signInWithGoogle, the getDocs of
\* clearAllChatMessages); a write that is on its way lands
EndsWithPage(c) ==
    c.op = "initializeChat" \/ c.pc \in {"lookup", "getDoc", "query"}

\* the page is left or loaded again: its ChatManager (chat.ts:17, 19-23)
\* is gone, and with it every continuation of the calls made from it
ReloadChat ==
    /\ chat' = [chat EXCEPT !.chatEnabled = TRUE, !.ready = FALSE, !.listening = FALSE]
    /\ calls' = [i \in DOMAIN calls |-> IF EndsWithPage(calls[i]) THEN NoCall ELSE calls[i]]
    /\ ev' = [op |-> "reload", enabled |-> chat.isEnabled]
    /\ db' = db
    /\ ChatFrame

\* part_000:339-343: updateChatSettings up to the settling of its isAdmin
DoUpdateChatSettings(userId, isEnabled, admDown) ==
    LET said == isAdmin(admins, userId, admDown).val
        r == updateChatSettings(admins, chat.isEnabled, userId,
                                [isEnabled |-> isEnabled], admDown, FALSE)
    IN  /\ IF ~said
           THEN /\ ev' = [op |-> "updateChatSettings", user |-> userId, ret |-> r.ret,
                          said |-> said, enabled |-> chat.isEnabled]
                /\ calls' = calls
           ELSE /\ HasFreeCall
                /\ calls' = [calls EXCEPT ![FreeCall] =
                                [NoCall EXCEPT !.op = "updateChatSettings",
                                    !.coll = "settings", !.user = userId,
                                    !.pc = "setting", !.said = TRUE,
                                    !.flag = isEnabled]]
                /\ ev' = [op |-> "await", of |-> "updateChatSettings"]
        /\ UNCHANGED <<db, chat>>
        /\ ChatFrame

\* part_000:345-349: the updateDoc of settings/chat settles
ChatSettingsWritten(i, writeDown) ==
    LET c == calls[i]
        r == updateChatSettings({c.user}, chat.isEnabled, c.user,
                                [isEnabled |-> c.flag], FALSE, writeDown)
    IN  /\ c.op = "updateChatSettings"
        /\ chat' = [chat EXCEPT !.isEnabled = r.stored]
        /\ calls' = [calls EXCEPT ![i] = NoCall]
        /\ ev' = [op |-> "updateChatSettings", user |-> c.user, ret |-> r.ret,
                  said |-> TRUE, enabled |-> chat.isEnabled]
        /\ db' = db
        /\ ChatFrame

\* security.ts:220-223: banUserFromChat up to the settling of its isAdmin
DoBanUserFromChat(adminId, userId, admDown) ==
    LET said == isAdmin(admins, adminId, admDown).val
        r == banUserFromChat(admins, chat.profiles, chat.banned, adminId, userId,
                             admDown, FALSE)
    IN  /\ IF ~said
           THEN /\ ev' = [op |-> "banUserFromChat", user |-> adminId, id |-> userId,
                          ret |-> r.ret, said |-> said, changed |-> FALSE,
                          enabled |-> chat.isEnabled]
                /\ calls' = calls
           ELSE /\ HasFreeCall
                /\ calls' = [calls EXCEPT ![FreeCall] =
                                [NoCall EXCEPT !.op = "banUserFromChat", !.coll = "users",
                                    !.user = adminId, !.id = userId, !.pc = "ban",
                                    !.said = TRUE]]
                /\ ev' = [op |-> "await", of |-> "banUserFromChat"]
        /\ UNCHANGED <<db, chat>>
        /\ ChatFrame

\* security.ts:225-229: the updateDoc of users/userId settles
BanWritten(i, writeDown) ==
    LET c == calls[i]
        r == banUserFromChat({c.user}, chat.profiles, chat.banned, c.user, c.id,
                             FALSE, writeDown)
    IN  /\ c.op = "banUserFromChat"
        /\ chat' = [chat EXCEPT !.banned = r.set]
        /\ calls' = [calls EXCEPT ![i] = NoCall]
        /\ ev' = [op |-> "banUserFromChat", user |-> c.user, id |-> c.id,
                  ret |-> r.ret, said |-> TRUE, changed |-> (r.set # chat.banned),
                  enabled |-> chat.isEnabled]
        /\ db' = db
        /\ ChatFrame

\* security.ts:184-188, 199-202: signInWithGoogle up to the settling of
\* signInWithPopup, which gives the account u; getDoc(users/u) is awaited next
signInWithGoogle(u, popupDown) ==
    /\ IF popupDown
       THEN /\ ev' = [op |-> "signInWithGoogle", user |-> u,
                      ret |-> Throw("signInWithGoogleFailed"), changed |-> FALSE]
            /\ calls' = calls
       ELSE /\ HasFreeCall
            /\ calls' = [calls EXCEPT ![FreeCall] =
                            [NoCall EXCEPT !.op = "signInWithGoogle", !.coll = "users",
                                !.user = u, !.pc = "getDoc"]]
            /\ ev' = [op |-> "await", of |-> "signInWithGoogle"]
    /\ UNCHANGED <<db, chat>>
    /\ ChatFrame

\* security.ts:188-190, 198-202: the getDoc of users/u settles; the profile is
\* written when the snapshot has no document
GoogleProfileRead(i, readDown) ==
    LET c == calls[i]
    IN  /\ c.op = "signInWithGoogle"
        /\ c.pc = "getDoc"
        /\ IF readDown
           THEN /\ ev' = [op |-> "signInWithGoogle", user |-> c.user,
                          ret |-> Throw("signInWithGoogleFailed"), changed |-> FALSE]
                /\ calls' = [calls EXCEPT ![i] = NoCall]
           ELSE IF c.user \in chat.profiles
           THEN /\ ev' = [op |-> "signInWithGoogle", user |-> c.user,
                          ret |-> Return(c.user), changed |-> FALSE]
                /\ calls' = [calls EXCEPT ![i] = NoCall]
           ELSE /\ ev' = [op |-> "await", of |-> "signInWithGoogle"]
                /\ calls' = [calls EXCEPT ![i].pc = "setDoc"]
        /\ UNCHANGED <<db, chat>>
        /\ ChatFrame

\* security.ts:190-202: the setDoc of users/u settles; setDoc replaces the
\* document, so that a flag set since the read is gone
GoogleProfileWritten(i, writeDown) ==
    LET c == calls[i]
        after == IF writeDown THEN chat
                 ELSE [chat EXCEPT !.profiles = @ \cup {c.user}, !.banned = @ \ {c.user}]
    IN  /\ c.op = "signInWithGoogle"
        /\ c.pc = "setDoc"
        /\ chat' = after
        /\ calls' = [calls EXCEPT ![i] = NoCall]
        /\ ev' = [op |-> "signInWithGoogle", user |-> c.user,
                  ret |-> IF writeDown THEN Throw("signInWithGoogleFailed")
                          ELSE Return(c.user),
                  changed |-> (after # chat), unbanned |-> (c.user \in chat.banned /\ ~writeDown)]
        /\ db' = db
        /\ ChatFrame

\* chat.ts:165-176, called by the handlers of 78-88: sendMessage up to the
\* settling of its ban lookup; user is the signed-in user requireAuth /
\* getCurrentUser give
sendMessage(user, banDown) ==
    LET isBanned == isUserBannedFromChat(chat.banned, user, banDown)
    IN  /\ chat.listening
        /\ IF isBanned
           THEN /\ ev' = [op |-> "sendMessage", user |-> user, banned |-> TRUE,
                          enabled |-> chat.isEnabled, added |-> FALSE]
                /\ calls' = calls
           ELSE /\ HasFreeCall
                /\ calls' = [calls EXCEPT ![FreeCall] =
                                [NoCall EXCEPT !.op = "sendMessage", !.coll = "users",
                                    !.user = user, !.pc = "lookup",
                                    !.flag = (user \in chat.banned)]]
                /\ ev' = [op |-> "await", of |-> "sendMessage"]
        /\ UNCHANGED <<db, chat>>
        /\ ChatFrame

\* chat.ts:178-197: sendMessage goes on; message is the input's value.  An
\* empty or too long text ends the call, otherwise sendChatMessage is called
\* and its addDoc awaited
MessageSubmitted(i, message) ==
    LET c == calls[i]
        text == Trim(message)
    IN  /\ c.op = "sendMessage"
        /\ c.pc = "lookup"
        /\ IF text = <<>> \/ Len(text) > 500
           THEN /\ calls' = [calls EXCEPT ![i] = NoCall]
                /\ ev' = [op |-> "sendMessage", user |-> c.user, banned |-> c.flag,
                          enabled |-> chat.isEnabled, added |-> FALSE]
           ELSE /\ calls' = [calls EXCEPT ![i] =
                                [c EXCEPT !.coll = "chat", !.pc = "addDoc",
                                          !.data = [authorId |-> c.user, content |-> text]]]
                /\ ev' = [op |-> "await", of |-> "sendMessage"]
        /\ UNCHANGED <<db, chat>>
        /\ ChatFrame

\* chat.ts:191-202, part_000:247-261: the addDoc of sendChatMessage settles
\* under the id it generated
MessageAdded(i, id, writeDown) ==
    LET c == calls[i]
        after == sendChatMessage(db, id, c.data, writeDown).store
    IN  /\ c.op = "sendMessage"
        /\ c.pc = "addDoc"
        /\ DocCount(db) < MaxDocs
        /\ FreshId("chat", id)
        /\ db' = after
        /\ calls' = [calls EXCEPT ![i] = NoCall]
        /\ ev' = [op |-> "sendMessage", user |-> c.user, banned |-> c.flag,
                  enabled |-> chat.isEnabled, added |-> (after # db)]
        /\ chat' = chat
        /\ ChatFrame

NextChat ==
    \/ \E d \in BOOLEAN : initializeChat(d)
    \/ \E i \in DOMAIN calls : ChatSettingsAnswered(i)
    \/ ReloadChat
    \/ \E u \in Users : \E e \in BOOLEAN : \E a \in BOOLEAN : DoUpdateChatSettings(u, e, a)
    \/ \E i \in DOMAIN calls : \E w \in BOOLEAN : ChatSettingsWritten(i, w)
    \/ \E a \in Users : \E u \in Chatters : \E d \in BOOLEAN : DoBanUserFromChat(a, u, d)
    \/ \E i \in DOMAIN calls : \E w \in BOOLEAN : BanWritten(i, w)
    \/ \E u \in Chatters : \E d \in BOOLEAN : signInWithGoogle(u, d)
    \/ \E i \in DOMAIN calls : \E d \in BOOLEAN : GoogleProfileRead(i, d)
    \/ \E i \in DOMAIN calls : \E w \in BOOLEAN : GoogleProfileWritten(i, w)
    \/ \E u \in Chatters : \E b \in BOOLEAN : sendMessage(u, b)
    \/ \E i \in DOMAIN calls : \E m \in Messages : MessageSubmitted(i, m)
    \/ \E i \in DOMAIN calls : \E d \in DocIds : \E w \in BOOLEAN : MessageAdded(i, d, w)
    \/ \E d \in DocIds : \E u \in Users : \E w \in BOOLEAN :
            DoSendChatMessage(d, u, <<"h", "i">>, w)
    \/ \E d \in DocIds : \E u \in Users : \E a \in BOOLEAN : BeginDeleteChatMessage(d, u, a)
    \/ \E i \in DOMAIN calls : \E w \in BOOLEAN : WriteSettled(i, w)
    \/ \E u \in Users : \E a \in BOOLEAN : BeginClearAllChatMessages(u, a)
    \/ \E i \in DOMAIN calls : \E d \in BOOLEAN : ChatQueried(i, d)
    \/ \E i \in DOMAIN calls : \E d \in DocIds : \E w \in BOOLEAN : ChatDocDeleted(i, d, w)
    \/ \E u \in Users : RevokeAdmin(u)

SpecChat == InitChat /\ [][NextChat]_vars

\* C22: banUserFromChat by a non-admin throws and leaves the target's
\* document unchanged, and a sendMessage that a banned user starts adds no
\* message to the chat collection, also when the ban-status lookup fails.
C22_BanEffective ==
    /\ ev.op = "banUserFromChat" /\ ev.user \notin admins
            => ev.ret.kind = "throw" /\ ~ev.changed
    /\ ev.op = "sendMessage" /\ ev.banned => ~ev.added

\* C23: while the stored chat setting isEnabled is false, no sendMessage adds
\* a message to the chat collection.
C23_ClosedChatEnforced ==
    ev.op = "sendMessage" /\ ~ev.enabled => ~ev.added

====
